---- MODULE Spec2Model ----
(***************************************************************************)
(* Model of the worktree command wizard (src/commands/git/worktree.ts):    *)
(* the generator WorktreeGitCommand.steps and the three subcommand flows   *)
(* it delegates to.  The generator is a sequential program; `pc` is the    *)
(* position it is at, a pc starting with "y_" is a suspended `yield`.      *)
(* And of the subscription service                                         *)
(* (src/plus/gk/account/subscriptionService.ts): its session cache, its    *)
(* check-in and its subscription, under concurrent callers.                *)
(***************************************************************************)
EXTENDS Integers, Sequences, FiniteSets, TLC

\* ------------------------------------------------------------------ bounds
\* The number of Back answers the driver gives in one run.
MaxBreaks == 1

\* ------------------------------------------------------------------ values
Null == "null"
NoUri == <<>>
Back == "Directive.Back"
Break == "StepResult.Break"
Undefined == "undefined"

Subcommands == {"open", "create", "delete"}

\* Repository objects of Container.instance.git.openRepositories, and the
\* string form (a repository path) a caller may pass as state.repo.
OpenRepositories == <<"repoA", "repoB">>
RepoPath == "path:repoA"
IsString(repo) == repo = RepoPath

\* Uris are sequences of path segments.
FolderUri == <<"repo">>
PathChoices == {<<"wts">>, <<"repo">>, <<"repo", "wts">>}
DefaultUris == {NoUri, <<"wts">>}
References == {"main", "feature/x"}
BranchNames == {"topic"}

\* The worktrees repo.getWorktrees() can return, as GitWorktree records: a
\* repository with one worktree besides the opened one, and one with three.
TwoWorktrees ==
    << [uri |-> <<"w1">>, opened |-> TRUE],
       [uri |-> <<"w2">>, opened |-> FALSE] >>

FourWorktrees ==
    << [uri |-> <<"w1">>, opened |-> TRUE],
       [uri |-> <<"w2">>, opened |-> FALSE],
       [uri |-> <<"w3">>, opened |-> FALSE],
       [uri |-> <<"w4">>, opened |-> FALSE] >>

UrisNull == [kind |-> "null", items |-> <<>>]
UrisOf(kind, items) == [kind |-> kind, items |-> items]

VARIABLES
    pc,             \* position of the generator
    state,          \* PartialStepState<State>
    context,        \* Context
    skippedStepTwo, \* local of steps()
    uri,            \* local of createCommandSteps
    idx,            \* position of the for loop of deleteCommandSteps
    returned,       \* what steps() returned
    env,            \* the collaborators' answers that do not change in a run
    first,          \* history: the step yielded first
    cur,            \* history: the step yielded last
    prev,           \* history: the step answered last, whether with Back, and
                    \* whether the repository step was skipped before it
    nBreaks,        \* history: the number of Back answers so far
    ans,            \* history: the answers given (or supplied up front)
    log,            \* history: the calls and dialogs of the executed action
    access          \* history: the ensureAccessStep calls, the result in this
                    \* iteration, and the subcommand flows entered

wvars == <<pc, state, context, skippedStepTwo, uri, idx, returned, env,
           first, cur, prev, nBreaks, ans, log, access>>

\* ======================================================================
\* Model of the subscription service
\* (src/plus/gk/account/subscriptionService.ts).  Every handler of the
\* service runs on the one JavaScript thread: an action is what runs from
\* one `await` that leaves the thread to the next.  The decorators (gate),
\* the plan helpers of ./subscription and getSubscriptionFromCheckIn are
\* not part of the sources at hand and are modelled from their use.

\* ------------------------------------------------------------------ bounds
\* The number of operations the user, the host and the timers start.
MaxOps == 2
\* The clock advances in steps of TickHours, this many times.
MaxTicks == 2
\* The six-hour periods that pass when the validation timer paces the clock.
MaxDailyTicks == 5

\* ------------------------------------------------------------------ values
\* Line 523: a check-in younger than this is not repeated.
CheckInTtlHours == 12
\* Line 605: the period of the validation timer, also the step of the clock.
TickHours == 6

\* The AuthenticationSession of the GitKraken account, and the session of
\* the same id that a sessions-changed event reports after its access token
\* changed (lines 127-130).
Session == "session"
Refreshed == "refreshed"

\* Dates are hours on the clock; a date that is undefined is NoDate.  A
\* response without a status has NoStatus.
NoDate == -1
NoStatus == 0

Plan(id, expiresOn) == [id |-> id, expiresOn |-> expiresOn]
FreePlan == Plan("free", NoDate)

\* The account of a subscription: undefined, or "verified" or "unverified"
\* for account.verified.
NoAccount == Undefined

\* getTimeRemaining(expiresOn): the time left at time t.
getTimeRemaining(expiresOn, t) == expiresOn - t

\* isSubscriptionExpired: the effective plan has an expiry that has passed.
isSubscriptionExpired(s, t) ==
    /\ s.plan.effective.expiresOn # NoDate
    /\ getTimeRemaining(s.plan.effective.expiresOn, t) <= 0

\* isSubscriptionPaid: the actual plan is a paid one.
isSubscriptionPaid(s) == s.plan.actual.id \notin {"free", "free+"}

\* computeSubscriptionState.
computeSubscriptionState(s) ==
    IF s.account = "unverified" THEN "VerificationRequired"
    ELSE IF s.plan.actual.id = s.plan.effective.id
         THEN CASE s.plan.effective.id = "free" ->
                       IF s.previewTrial = NoDate THEN "Free"
                       ELSE "FreePreviewTrialExpired"
                [] s.plan.effective.id = "free+" -> "FreePlusTrialExpired"
                [] OTHER -> "Paid"
         ELSE CASE s.plan.effective.id = "free" ->
                       IF s.previewTrial = NoDate THEN "Free"
                       ELSE "FreeInPreviewTrial"
                [] s.plan.effective.id = "free+" -> "FreePlusTrialExpired"
                [] OTHER ->
                       IF s.plan.actual.id = "free" THEN "FreeInPreviewTrial"
                       ELSE "FreePlusInTrial"

\* Lines 753-761: the subscription used when none is given.
FreeSubscription ==
    [plan |-> [actual |-> FreePlan, effective |-> FreePlan],
     account |-> NoAccount, previewTrial |-> NoDate, state |-> "Free"]

\* The argument of changeSubscription when it is undefined.
NoSubscription == [FreeSubscription EXCEPT !.state = Undefined]

\* The subscriptions a check-in can answer with (getSubscriptionFromCheckIn):
\* a Pro trial on a free account and a paid plan.  The keys a check-in
\* carries replace those of the current subscription (lines 614-620).  The
\* trials of the model end at the hour TrialExpiresOn.
TrialExpiresOn == 6

CheckInData ==
    { [plan |-> [actual |-> Plan("free+", NoDate),
                 effective |-> Plan("pro", TrialExpiresOn)],
       account |-> "verified"],
      [plan |-> [actual |-> Plan("pro", NoDate),
                 effective |-> Plan("pro", NoDate)],
       account |-> "verified"] }

\* The ways a check-in fails (lines 576-578, 582-587): a response that is
\* not ok carries its status, any other failure the error it wraps.
CheckInFailures ==
    { [ok |-> FALSE, statusCode |-> 399, code |-> Undefined],
      [ok |-> FALSE, statusCode |-> 400, code |-> Undefined],
      [ok |-> FALSE, statusCode |-> 499, code |-> Undefined],
      [ok |-> FALSE, statusCode |-> 500, code |-> Undefined],
      [ok |-> FALSE, statusCode |-> NoStatus, code |-> "ENOTFOUND"],
      [ok |-> FALSE, statusCode |-> NoStatus, code |-> "ECONNRESET"] }

CheckInOk == [ok |-> TRUE, statusCode |-> NoStatus, code |-> Undefined]

\* What storage holds when the extension starts (lines 837-860): a preview
\* trial without an account, or the Pro trial of an account.
StoredSubscriptions ==
    { [plan |-> [actual |-> FreePlan, effective |-> FreePlan],
       account |-> NoAccount, previewTrial |-> TrialExpiresOn,
       state |-> "Free"],
      [plan |-> [actual |-> Plan("free+", NoDate),
                 effective |-> Plan("pro", TrialExpiresOn)],
       account |-> "verified", previewTrial |-> NoDate,
       state |-> "FreePlusInTrial"] }

\* The calls of ensureSession that the gate tells apart: its arguments
\* (createIfNeeded, force) as the call sites give them (lines 105, 180, 184,
\* 219, 355, 499, 602).
Keys == {"false", "true", "false,true"}
CreateIfNeeded(k) == k = "true"
Force(k) == k = "false,true"

VARIABLES
    _session,            \* AuthenticationSession | null | undefined
    _sessionPromise,     \* the key of the call whose promise it holds
    _subscription,
    _etag,
    _lastValidatedDate,
    _validationTimer,    \* whether the interval timer is set
    stored,              \* storage: 'premium:subscription'
    now,                 \* Date.now(), in hours
    calls,               \* per key: the pending ensureSession calls
    checkin,             \* the pending checkInAndValidate calls (one account)
    validating,          \* the pending validate calls
    auth,                \* the pending onAuthenticationChanged handler
    logouts,             \* the pending logout calls: their reset argument
                         \* and, as history, what was pending at the call
    fired,               \* history: the event onDidChange fired last
    lastChange,          \* history: the last call of changeSubscription
    raced,               \* history: a logout ran during a pending flight
    provider,            \* the session authentication.getSession returns
    refreshes,           \* the token refreshes the provider has yet to make
    previewTrialCalls,   \* history: the calls of startPreviewTrial so far
    ops                  \* the operations that can still be started

svars == <<_session, _sessionPromise, _subscription, _etag, _lastValidatedDate,
           _validationTimer, stored, now, calls, checkin, validating, auth,
           logouts, fired, lastChange, raced, provider, refreshes,
           previewTrialCalls,
           ops>>

vars == <<wvars, svars>>

\* The variables changeSubscription writes.
subscriptionVars == <<_subscription, _etag, stored, fired, lastChange>>

\* ------------------------------------------------ changeSubscription (748)
\* JSON.stringify of a subscription: the members in order, those that are
\* undefined left out.
stringify(s) ==
    LET stringifyPlan(p) ==
            <<"id", p.id>> \o
            (IF p.expiresOn = NoDate THEN <<>>
             ELSE <<"expiresOn", ToString(p.expiresOn)>>)
    IN  <<"actual">> \o stringifyPlan(s.plan.actual) \o
        <<"effective">> \o stringifyPlan(s.plan.effective) \o
        (IF s.account = NoAccount THEN <<>> ELSE <<"account", s.account>>) \o
        (IF s.previewTrial = NoDate THEN <<>>
         ELSE <<"previewTrial", ToString(s.previewTrial)>>) \o
        <<"state", s.state>>

\* Lines 763-772: an expired effective plan is replaced by the actual plan.
ExpiredReplaced(s, t) ==
    IF isSubscriptionExpired(s, t)
    THEN [s EXCEPT !.plan.effective = s.plan.actual]
    ELSE s

\* Lines 774-795: a running preview trial is applied to an unpaid plan.
AppliesPreviewTrial(s, t) ==
    /\ ~isSubscriptionPaid(s)
    /\ s.previewTrial # NoDate
    /\ getTimeRemaining(s.previewTrial, t) > 0

PreviewApplied(s, t) ==
    IF AppliesPreviewTrial(s, t)
    THEN [s EXCEPT !.plan.effective = Plan("pro", s.previewTrial)]
    ELSE s

\* Lines 753-798: the subscription changeSubscription goes on with.
Normalised(subscription, t) ==
    LET s0 == IF subscription = NoSubscription THEN FreeSubscription ELSE subscription
        s2 == PreviewApplied(ExpiredReplaced(s0, t), t)
    IN  [s2 EXCEPT !.state = computeSubscriptionState(s2)]

\* Lines 763-798: the object passed is written in place (line 797) unless
\* one of the two replacements copied it.
WrittenInPlace(subscription, t) ==
    /\ subscription # NoSubscription
    /\ ~isSubscriptionExpired(subscription, t)
    /\ ~AppliesPreviewTrial(ExpiredReplaced(subscription, t), t)

\* Mutant of Matches: no two subscriptions are taken to be the same.
MatchesNever(previous, subscription) == FALSE

\* Line 802.
Matches(previous, subscription) ==
    stringify(previous) = stringify(subscription)

\* Mutant of ChangeEvent: the event carries the new subscription twice.
ChangeEventWithoutPrevious(previous, subscription, etag) ==
    [current |-> subscription, previous |-> subscription, etag |-> etag]

\* Line 832.
ChangeEvent(previous, subscription, etag) ==
    [current |-> subscription, previous |-> previous, etag |-> etag]

\* Lines 862-867.
StoredValue(subscription, lastValidatedDate) ==
    [data |-> subscription, lastValidatedAt |-> lastValidatedDate]

\* What a call of changeSubscription did: the subscription it went on with
\* (line 797), its store option, and whether it called storeSubscription and
\* updateContext and fired onDidChange; seq tells a call from the one before.
Change(seq, subscription, store, didStore, updatedContext, didFire) ==
    [seq |-> seq, subscription |-> subscription, store |-> store,
     stored |-> didStore, updatedContext |-> updatedContext, fired |-> didFire]

\* Lines 748-835, for a call that is not silent: `aliased` says that the
\* argument is the object this._subscription, `lastValidatedDate` is the
\* date at the time of the call.
changeSubscription(subscription, aliased, store, lastValidatedDate) ==
    LET new == Normalised(subscription, now)
        previous == IF aliased /\ WrittenInPlace(subscription, now)
                    THEN new ELSE _subscription
    IN  IF Matches(previous, new)
        THEN /\ _subscription' = previous
             /\ UNCHANGED <<_etag, fired>>
             /\ stored' = IF store THEN StoredValue(new, lastValidatedDate)
                          ELSE stored
             /\ lastChange' = Change(1 - lastChange.seq, new, store, store,
                                     FALSE, FALSE)
        ELSE /\ stored' = StoredValue(new, lastValidatedDate)
             /\ _subscription' = new
             /\ _etag' = now
             /\ fired' = <<ChangeEvent(previous, new, now)>>
             /\ lastChange' = Change(1 - lastChange.seq, new, store, TRUE, TRUE,
                                     TRUE)

\* ------------------------------------------------------ constructor (80)
Idle == [pc |-> "idle", on |-> Undefined, res |-> CheckInOk,
         session |-> Undefined]

\* Lines 80-106 with getStoredSubscription (837-860): the state once the
\* constructor has run.
InitServiceWith(subscriptions, n, r) ==
    \E s \in subscriptions, lastValidatedAt \in {NoDate, 0} :
        /\ lastValidatedAt = NoDate <=> s.account = NoAccount
        /\ now = 0
        /\ _session = Undefined
        /\ _sessionPromise = Undefined
        /\ _subscription = Normalised(s, 0)
        /\ _etag = 0
        /\ _lastValidatedDate = lastValidatedAt
        /\ _validationTimer = FALSE
        /\ stored = StoredValue(Normalised(s, 0), lastValidatedAt)
        /\ calls = [k \in Keys |-> Idle]
        /\ checkin = "idle"
        /\ validating = [pc |-> "idle", res |-> Undefined]
        /\ auth = [pc |-> "idle", e |-> "none", updated |-> Session,
                   on |-> Undefined, session |-> Undefined]
        /\ logouts = <<>>
        /\ fired = <<>>
        /\ lastChange = Change(0, Normalised(s, 0), FALSE, TRUE, FALSE, FALSE)
        /\ raced = FALSE
        /\ provider = Session
        /\ refreshes = r
        /\ previewTrialCalls = 0
        /\ ops = n

\* ------------------------------------------------------ logoutCore (279)
\* Mutant of LoggedOutSubscription: the effective plan is kept.
LoggedOutSubscriptionKeepsEffective(s) ==
    [s EXCEPT !.plan.actual = FreePlan, !.account = NoAccount]

\* Lines 303-326: the subscription logoutCore changes to.
LoggedOutSubscription(s) ==
    [s EXCEPT !.plan = [actual |-> FreePlan, effective |-> FreePlan],
              !.account = NoAccount]

\* Lines 287-295: what _session is after logoutCore.
SessionAfterLogout(session) ==
    IF session \notin {Null, Undefined} THEN Undefined ELSE session

\* Lines 297-326, after `await abort()`: reset says `reset && debugging`.
LogoutCoreChange(reset) ==
    IF reset
    THEN changeSubscription(NoSubscription, FALSE, FALSE, _lastValidatedDate)
    ELSE changeSubscription(LoggedOutSubscription(_subscription), FALSE, FALSE,
                            _lastValidatedDate)

\* -------------------------------------------------- ensureSession (626)
\* Lines 633-652, from the first test after the wait of line 630.
AfterWait(k, session, promise) ==
    IF ~Force(k) /\ session \notin {Null, Undefined}
    THEN [kind |-> "return", on |-> Undefined, value |-> session]
    ELSE IF session = Null /\ ~CreateIfNeeded(k)
    THEN [kind |-> "return", on |-> Undefined, value |-> Undefined]
    ELSE IF promise = Undefined
    THEN [kind |-> "start", on |-> k, value |-> Undefined]
    ELSE [kind |-> "await", on |-> promise, value |-> Undefined]

\* Lines 629-652: how far a call with key k gets before it first waits.
ensureSession(k, session, promise) ==
    IF promise # Undefined /\ session = Undefined
    THEN [kind |-> "wait", on |-> promise, value |-> Undefined]
    ELSE AfterWait(k, session, promise)

\* The pending calls a decision of ensureSession leaves.
CallAfter(d) ==
    CASE d.kind = "wait" -> [Idle EXCEPT !.pc = "wait", !.on = d.on]
      [] d.kind = "await" -> [Idle EXCEPT !.pc = "await", !.on = d.on]
      [] d.kind = "start" -> [Idle EXCEPT !.pc = "lookup"]
      [] OTHER -> Idle

\* Lines 637-648: getOrCreateSession of the call with key k settles with
\* session r (the handlers of lines 638-647 have set _session to r): the
\* promise is cleared, the call and the calls waiting for its promise go on
\* (lines 630-652, returning `session ?? undefined`) and the handlers
\* waiting for it are resumed.
Settle(k, r) ==
    LET waiting == {w \in Keys \ {k} : calls[w].pc = "wait" /\ calls[w].on = k}
        awaiting == {w \in Keys \ {k} : calls[w].pc = "await" /\ calls[w].on = k}
        starters == {w \in waiting : AfterWait(w, r, Undefined).kind = "start"}
    IN  \E s \in (IF starters = {} THEN {Undefined} ELSE starters) :
          LET after(w) ==
                  IF w = k \/ w \in awaiting THEN Idle
                  ELSE IF w \in waiting
                       THEN (IF w = s THEN CallAfter(AfterWait(w, r, Undefined))
                             ELSE CallAfter(AfterWait(w, r, s)))
                       ELSE calls[w]
              value == IF "false" \in waiting
                       THEN AfterWait("false", r, s).value
                       ELSE (IF r = Null THEN Undefined ELSE r)
          IN  /\ _session' = r
              /\ _sessionPromise' = s
              /\ calls' = [w \in Keys |-> after(w)]
              /\ validating' =
                    IF /\ validating.pc = "wait"
                       /\ calls["false"].pc # "idle"
                       /\ after("false").pc = "idle"
                    THEN [pc |-> "resume", res |-> value]
                    ELSE validating
              /\ auth' = IF auth.pc = "wait" /\ auth.on = k
                         THEN [auth EXCEPT !.pc = "resume", !.session = r]
                         ELSE auth

\* ---------------------------------------------- checkInAndValidate (513)
\* Mutant of SkipsCheckIn: an expired subscription does not force a check-in.
SkipsCheckInWhenExpired(forced, lastValidatedDate, t, s) ==
    /\ ~forced
    /\ lastValidatedDate # NoDate
    /\ t - lastValidatedDate < CheckInTtlHours

\* Lines 520-527.
SkipsCheckIn(forced, lastValidatedDate, t, s) ==
    /\ ~forced
    /\ lastValidatedDate # NoDate
    /\ t - lastValidatedDate < CheckInTtlHours
    /\ ~isSubscriptionExpired(s, t)

\* What a call of checkInAndValidate does before it first waits: it joins
\* the pending call for the account (gate, line 514), returns at once
\* (line 526), or sends the check-in (lines 529, 551-575).
checkInAndValidate(forced) ==
    IF checkin = "fetch" THEN "join"
    ELSE IF SkipsCheckIn(forced, _lastValidatedDate, now, _subscription) THEN "skip"
    ELSE "send"

\* Mutant of IsClientFailure: the test that lines 702-705 keep as a comment.
IsClientFailureOrUnknown(res) ==
    \/ res.statusCode # NoStatus /\ res.statusCode < 500
    \/ res.statusCode = NoStatus /\ res.code # "ENOTFOUND"

\* Lines 706-711.
IsClientFailure(res) ==
    /\ res.code # "ENOTFOUND"
    /\ res.statusCode # NoStatus
    /\ res.statusCode < 500
    /\ res.statusCode >= 400

\* ---------------------------------------------------------------- actions
\* An operation is started by the user, the host or a timer: what was said
\* of an earlier logout no longer describes the state to come.
StartOp(signsIn) ==
    /\ ops > 0
    /\ ops' = ops - 1
    /\ raced' = IF signsIn THEN FALSE ELSE raced

\* What was recorded of the pending logouts when they were called (a lookup
\* with its check-in was pending, nothing was pending) no longer describes
\* them once another operation starts.
Unraced(ls) ==
    [i \in 1..Len(ls) |-> [ls[i] EXCEPT !.raced = FALSE, !.alone = FALSE]]

\* No operation of the service is pending.
Quiescent ==
    /\ calls = [k \in Keys |-> Idle]
    /\ checkin = "idle"
    /\ validating.pc = "idle"
    /\ auth.pc = "idle"
    /\ logouts = <<>>

\* A session lookup is pending with the check-in it sent (lines 662-685).
FlightPending == checkin = "fetch" /\ \E k \in Keys : calls[k].pc = "checkin"

\* Lines 626-652: ensureSession is called (getAuthenticationSession,
\* getSubscription, loginOrSignUp, the constructor's timer) while no calls
\* with these arguments is pending, and does not find its answer cached.
EnsureSession ==
    \E k \in {"false", "true"} :
        LET d == ensureSession(k, _session, _sessionPromise) IN
        /\ calls[k].pc = "idle"
        /\ d.kind # "return"
        /\ StartOp(TRUE)
        /\ calls' = [calls EXCEPT ![k] = CallAfter(d)]
        /\ _sessionPromise' = IF d.kind = "start" THEN k ELSE _sessionPromise
        /\ logouts' = Unraced(logouts)
        /\ UNCHANGED <<_session, _lastValidatedDate, _validationTimer, now, provider, refreshes, previewTrialCalls,
                       checkin, validating, auth>>
        /\ UNCHANGED subscriptionVars
    /\ UNCHANGED wvars

\* Lines 599-603: the validation timer fires; getDate() of line 601 is the
\* day of a clock that starts at midnight.
ValidationTimerFires ==
    LET d == ensureSession("false,true", _session, _sessionPromise) IN
    /\ _validationTimer
    /\ _lastValidatedDate = NoDate \/ _lastValidatedDate \div 24 # now \div 24
    /\ calls["false,true"].pc = "idle"
    /\ d.kind # "return"
    /\ StartOp(TRUE)
    /\ calls' = [calls EXCEPT !["false,true"] = CallAfter(d)]
    /\ _sessionPromise' = IF d.kind = "start" THEN "false,true" ELSE _sessionPromise
    /\ logouts' = Unraced(logouts)
    /\ UNCHANGED <<_session, _lastValidatedDate, _validationTimer, now, provider, refreshes, previewTrialCalls, checkin,
                   validating, auth>>
    /\ UNCHANGED subscriptionVars
    /\ UNCHANGED wvars

\* Lines 655-746: authentication.getSession answers the call with key k.  A
\* session is checked in (line 685); without one, also when the lookup
\* threw, logoutCore is called (lines 671, 680) and runs up to its await.
GetOrCreateSession(k) ==
    /\ calls[k].pc = "lookup"
    /\ \/ LET c == checkInAndValidate(CreateIfNeeded(k)) IN
          /\ CASE c = "join" ->
                    /\ calls' = [calls EXCEPT ![k].pc = "checkin",
                                              ![k].session = provider]
                    /\ UNCHANGED <<_session, _sessionPromise, validating, auth,
                                   checkin, _lastValidatedDate>>
               [] c = "skip" ->
                    /\ Settle(k, provider)
                    /\ UNCHANGED <<checkin, _lastValidatedDate>>
               [] OTHER ->
                    /\ _lastValidatedDate' = NoDate
                    /\ checkin' = "fetch"
                    /\ calls' = [calls EXCEPT ![k].pc = "checkin",
                                              ![k].session = provider]
                    /\ UNCHANGED <<_session, _sessionPromise, validating, auth>>
          /\ UNCHANGED _validationTimer
       \/ /\ _lastValidatedDate' = NoDate
          /\ _validationTimer' = FALSE
          /\ calls' = [calls EXCEPT ![k].pc = "abort"]
          /\ UNCHANGED <<_session, _sessionPromise, validating, auth, checkin>>
    /\ UNCHANGED <<now, provider, refreshes, previewTrialCalls, logouts, raced, ops>>
    /\ UNCHANGED subscriptionVars
    /\ UNCHANGED wvars

\* Lines 285-326 inside getOrCreateSession (lines 671, 680, 713): abort()
\* has settled.  When it resolved, logoutCore goes on and
\* getOrCreateSession returns null; when it rejected, getOrCreateSession
\* rejects and the handler of lines 643-647 sets _session to null.
LogoutCoreInFlight(k) ==
    /\ calls[k].pc \in {"abort", "failabort"}
    /\ \/ /\ LogoutCoreChange(FALSE)
          /\ Settle(k, Null)
       \/ /\ Settle(k, Null)
          /\ UNCHANGED subscriptionVars
    /\ UNCHANGED <<_lastValidatedDate, _validationTimer, now, provider, refreshes, previewTrialCalls, checkin, logouts,
                   raced, ops>>
    /\ UNCHANGED wvars

\* Lines 567-591 with validateAndUpdateSubscription (608-621) and
\* startDailyValidationTimer (593-606): the check-in request settles.  The
\* calls that wait for it see its outcome; validate (lines 505-510) returns.
CheckInSettles ==
    /\ checkin = "fetch"
    /\ \E res \in {CheckInOk} \cup CheckInFailures :
        /\ IF res.ok
           THEN \E data \in CheckInData :
                  /\ _lastValidatedDate' = now
                  /\ changeSubscription(
                         [_subscription EXCEPT !.plan = data.plan,
                                               !.account = data.account],
                         FALSE, TRUE, now)
           ELSE /\ UNCHANGED _lastValidatedDate
                /\ UNCHANGED subscriptionVars
        /\ calls' = [k \in Keys |->
                      IF calls[k].pc = "checkin"
                      THEN [calls[k] EXCEPT !.pc = "checked", !.res = res]
                      ELSE calls[k]]
    /\ _validationTimer' = TRUE
    /\ checkin' = "idle"
    /\ validating' = IF validating.pc = "checkin"
                     THEN [validating EXCEPT !.pc = "idle"]
                     ELSE validating
    /\ UNCHANGED <<_session, _sessionPromise, now, provider, refreshes, previewTrialCalls, auth, logouts,
                   raced, ops>>
    /\ UNCHANGED wvars

\* Lines 684-745: getOrCreateSession goes on after checkInAndValidate.
AfterCheckIn(k) ==
    /\ calls[k].pc = "checked"
    /\ IF ~calls[k].res.ok /\ IsClientFailure(calls[k].res)
       THEN /\ _lastValidatedDate' = NoDate
            /\ _validationTimer' = FALSE
            /\ calls' = [calls EXCEPT ![k].pc = "failabort"]
            /\ UNCHANGED <<_session, _sessionPromise, validating, auth>>
       ELSE /\ Settle(k, calls[k].session)
            /\ UNCHANGED <<_lastValidatedDate, _validationTimer>>
    /\ UNCHANGED <<now, provider, refreshes, previewTrialCalls, checkin, logouts, raced, ops>>
    /\ UNCHANGED subscriptionVars
    /\ UNCHANGED wvars

\* Lines 500-510: validate({force: true}) goes on with the session
\* ensureSession returned.
ValidateWith(session) ==
    IF session = Undefined
    THEN /\ changeSubscription(_subscription, TRUE, FALSE, _lastValidatedDate)
         /\ validating' = [pc |-> "idle", res |-> Undefined]
         /\ UNCHANGED <<checkin, _lastValidatedDate>>
    ELSE /\ validating' = [pc |-> "checkin", res |-> session]
         /\ IF checkInAndValidate(TRUE) = "join"
            THEN UNCHANGED <<checkin, _lastValidatedDate>>
            ELSE /\ _lastValidatedDate' = NoDate
                 /\ checkin' = "fetch"
         /\ UNCHANGED subscriptionVars

\* Lines 494-511: validate({force: true}) is called when _session is
\* `session`: a pending validate is joined (gate), else ensureSession(false)
\* is called, or joined when it is pending.
validate(session) ==
    IF validating.pc # "idle"
    THEN UNCHANGED <<calls, _sessionPromise, validating, checkin,
                     _lastValidatedDate, subscriptionVars>>
    ELSE IF calls["false"].pc # "idle"
    THEN /\ validating' = [pc |-> "wait", res |-> Undefined]
         /\ UNCHANGED <<calls, _sessionPromise, checkin, _lastValidatedDate,
                        subscriptionVars>>
    ELSE LET d == ensureSession("false", session, _sessionPromise) IN
         IF d.kind = "return"
         THEN /\ ValidateWith(d.value)
              /\ UNCHANGED <<calls, _sessionPromise>>
         ELSE /\ calls' = [calls EXCEPT !["false"] = CallAfter(d)]
              /\ _sessionPromise' = IF d.kind = "start" THEN "false"
                                    ELSE _sessionPromise
              /\ validating' = [pc |-> "wait", res |-> Undefined]
              /\ UNCHANGED <<checkin, _lastValidatedDate ,
                             subscriptionVars>>

\* Line 168: the validate command.
Validate ==
    /\ validating.pc = "idle"
    /\ StartOp(TRUE)
    /\ validate(_session)
    /\ logouts' = Unraced(logouts)
    /\ UNCHANGED <<_session, _validationTimer, now, provider, refreshes, previewTrialCalls, auth>>
    /\ UNCHANGED wvars

\* Lines 499-510: ensureSession has returned to the waiting validate.
ValidateResumes ==
    /\ validating.pc = "resume"
    /\ ValidateWith(validating.res)
    /\ raced' = FALSE
    /\ logouts' = Unraced(logouts)
    /\ UNCHANGED <<_session, _sessionPromise, _validationTimer, now, provider, refreshes, previewTrialCalls, calls, auth,
                   ops>>
    /\ UNCHANGED wvars

\* Lines 274-284: logout is called (lines 161, 175) and runs up to the
\* await of abort().
Logout ==
    /\ StartOp(FALSE)
    /\ \E reset \in BOOLEAN :
          logouts' = Append(logouts, [reset |-> reset, raced |-> FlightPending,
                                       alone |-> Quiescent])
    /\ _lastValidatedDate' = NoDate
    /\ _validationTimer' = FALSE
    /\ UNCHANGED <<_session, _sessionPromise, now, provider, refreshes, previewTrialCalls, calls, checkin, validating,
                   auth>>
    /\ UNCHANGED subscriptionVars
    /\ UNCHANGED wvars

\* Lines 285-326: abort() has settled for a pending logout; when it rejected
\* so does logout.
LogoutCore ==
    \E i \in 1..Len(logouts) :
        /\ logouts' = SubSeq(logouts, 1, i - 1) \o
                      SubSeq(logouts, i + 1, Len(logouts))
        /\ \/ /\ _sessionPromise' = Undefined
              /\ _session' = SessionAfterLogout(_session)
              /\ LogoutCoreChange(logouts[i].reset)
              /\ raced' = (raced \/ logouts[i].raced)
           \/ /\ UNCHANGED <<_session, _sessionPromise, raced>>
              /\ UNCHANGED subscriptionVars
        /\ UNCHANGED <<_lastValidatedDate, _validationTimer, now, provider, refreshes, previewTrialCalls, calls, checkin,
                       validating, auth, ops>>
    /\ UNCHANGED wvars

\* The two values of the account's session share one id (line 120) and
\* differ in their access token (line 130).
Sessions == {Session, Refreshed}

\* Lines 119-135: onAuthenticationChanged goes on with `session`, for an
\* event that removed the account's session or reports `updated`.
AuthenticationChanged(e, updated, session) ==
    IF e = "removed" /\ session \in Sessions
    THEN /\ _session' = Undefined
         /\ _sessionPromise' = Undefined
         /\ _lastValidatedDate' = NoDate
         /\ _validationTimer' = FALSE
         /\ logouts' = Append(logouts, [reset |-> FALSE, raced |-> FALSE,
                                      alone |-> FALSE])
         /\ UNCHANGED <<calls, validating, checkin, raced>>
         /\ UNCHANGED subscriptionVars
    ELSE IF e = "removed" \/ updated = session
    THEN UNCHANGED <<_session, _sessionPromise, _lastValidatedDate,
                     _validationTimer, logouts, calls, validating, checkin,
                     raced, subscriptionVars>>
    ELSE /\ _session' = session
         /\ validate(session)
         /\ raced' = FALSE
         /\ logouts' = Unraced(logouts)
         /\ UNCHANGED _validationTimer

\* Lines 86-89, 114-118: the provider reports a change of sessions (the
\* session was removed, its token changed, or the event reports the session
\* the provider already held); the handler waits for a pending session
\* promise when no session is cached.
OnAuthenticationChanged ==
    /\ auth.pc = "idle"
    /\ ops > 0
    /\ ops' = ops - 1
    /\ \E e \in {"removed", "changed", "same"} :
        /\ e = "changed" => refreshes > 0
        /\ refreshes' = IF e = "changed" THEN refreshes - 1 ELSE refreshes
        /\ provider' = IF e = "changed"
                       THEN CHOOSE s \in Sessions : s # provider
                       ELSE provider
        /\ IF _session \in {Null, Undefined} /\ _sessionPromise # Undefined
           THEN /\ auth' = [pc |-> "wait", e |-> e, updated |-> provider',
                            on |-> _sessionPromise, session |-> Undefined]
                /\ UNCHANGED <<_session, _sessionPromise, _lastValidatedDate,
                               _validationTimer, logouts, calls, validating,
                               checkin, raced, subscriptionVars>>
           ELSE /\ AuthenticationChanged(e, provider', _session)
                /\ UNCHANGED auth
    /\ UNCHANGED <<now, previewTrialCalls>>
    /\ UNCHANGED wvars

\* Lines 117-135: the promise the handler waited for has settled.
OnAuthenticationChangedResumes ==
    /\ auth.pc = "resume"
    /\ AuthenticationChanged(auth.e, auth.updated, auth.session)
    /\ auth' = [auth EXCEPT !.pc = "idle"]
    /\ UNCHANGED <<now, provider, refreshes, previewTrialCalls, ops>>
    /\ UNCHANGED wvars

\* isSubscriptionInProTrial: the subscription of an account is in a trial
\* (the effective plan is not the actual one) that has not expired.
isSubscriptionInProTrial(s, t) ==
    /\ s.account # NoAccount
    /\ s.plan.actual.id # s.plan.effective.id
    /\ ~isSubscriptionExpired(s, t)

\* Mutant of SkipsPreviewTrial: a preview trial that has expired does not
\* keep a new one from starting.
SkipsPreviewTrialWhileRunning(s, t) ==
    \/ s.previewTrial # NoDate /\ getTimeRemaining(s.previewTrial, t) > 0
    \/ isSubscriptionInProTrial(s, t)

\* Lines 421-444: startPreviewTrial returns without starting a trial.
SkipsPreviewTrial(s, t) ==
    \/ s.previewTrial # NoDate
    \/ isSubscriptionInProTrial(s, t)

\* Lines 416-492: the startPreviewTrial command (line 163), from the point
\* where ensurePlusFeaturesEnabled has answered yes, outside a debugging
\* session: the preview ends three days after the last hour of today.  A
\* call made while another one waits for that answer joins it (gate).
StartPreviewTrial ==
    LET expiresOn == (now \div 24) * 24 + 23 + 3 * 24 IN
    /\ StartOp(FALSE)
    /\ previewTrialCalls' = previewTrialCalls + 1
    /\ IF SkipsPreviewTrial(_subscription, now)
       THEN UNCHANGED subscriptionVars
       ELSE changeSubscription(
                [_subscription EXCEPT !.plan.effective = Plan("pro", expiresOn),
                                      !.previewTrial = expiresOn],
                FALSE, FALSE, _lastValidatedDate)
    /\ UNCHANGED <<_session, _sessionPromise, _lastValidatedDate,
                   _validationTimer, now, provider, refreshes, calls, checkin, validating,
                   auth, logouts>>
    /\ UNCHANGED wvars

\* Time passes.
Tick ==
    /\ now < MaxTicks * TickHours
    /\ now' = now + TickHours
    /\ UNCHANGED <<_session, _sessionPromise, _subscription, _etag,
                   _lastValidatedDate, _validationTimer, stored, calls, checkin,
                   validating, auth, logouts, fired, lastChange,
                   raced, provider, refreshes, previewTrialCalls, ops>>
    /\ UNCHANGED wvars

NextService ==
    \/ EnsureSession
    \/ StartPreviewTrial
    \/ ValidationTimerFires
    \/ \E k \in Keys : GetOrCreateSession(k)
    \/ \E k \in Keys : LogoutCoreInFlight(k)
    \/ CheckInSettles
    \/ \E k \in Keys : AfterCheckIn(k)
    \/ Validate
    \/ ValidateResumes
    \/ Logout
    \/ LogoutCore
    \/ OnAuthenticationChanged
    \/ OnAuthenticationChangedResumes
    \/ Tick

\* ======================================================================
\* The worktree command wizard.

\* ------------------------------------------------------- Uri, path helpers
joinPath(base, segments) == base \o segments

basename(path) == path[Len(path)]

isDescendent(u, base) ==
    /\ Len(u) >= Len(base)
    /\ SubSeq(u, 1, Len(base)) = base

\* reference.name.replace(/\\/g, '/').split('/')
RefSegments(ref) ==
    CASE ref = "main" -> <<"main">>
      [] ref = "feature/x" -> <<"feature", "x">>
      [] OTHER -> <<ref>>

\* ------------------------------------------- QuickCommand step framework
\* The loop condition of every step loop: false once the counter is below 0.
canStepsContinue(s) == s.counter >= 0

\* QuickCommand.endSteps: the counter is put below 0, so every loop ends.
endSteps(s) == [s EXCEPT !.counter = -1]

\* A step answered with a selection or a value: the counter advances.
StepAccepted(s) == [s EXCEPT !.counter = @ + 1]

\* A step answered with Directive.Back: the counter goes back by one and the
\* step function returns StepResult.Break.
StepBroken(s) == [s EXCEPT !.counter = @ - 1]

\* The driver resumes the generator with the user's selection or with Back.
CanGoBack == nBreaks < MaxBreaks

Resume(back) ==
    /\ prev' = [step |-> cur, back |-> back, skipped |-> skippedStepTwo]
    /\ nBreaks' = IF back THEN nBreaks + 1 ELSE nBreaks

Yield(step, at) ==
    /\ pc' = at
    /\ cur' = step
    /\ first' = IF first = Null THEN step ELSE first

\* A part of the program that yields nothing.
NoYield == UNCHANGED <<first, cur>>

\* ------------------------------------------------------------ constructor
RepoArgs == {Null, RepoPath, OpenRepositories[1]}

ArgStates ==
    { [subcommand |-> Null, repo |-> r, uri |-> NoUri, uris |-> UrisNull,
       reference |-> Null, createBranch |-> Null] : r \in RepoArgs }
    \cup
    { [subcommand |-> "create", repo |-> r, uri |-> u, uris |-> UrisNull,
       reference |-> ref, createBranch |-> b] :
         r \in RepoArgs, u \in {NoUri, <<"wts">>},
         ref \in {Null, "main"}, b \in {Null} \cup BranchNames }
    \cup
    { [subcommand |-> "delete", repo |-> r, uri |-> NoUri, uris |-> us,
       reference |-> Null, createBranch |-> Null] :
         r \in RepoArgs,
         us \in { UrisNull, UrisOf("array", <<>>), UrisOf("uri", << <<"w2">> >>),
                  UrisOf("array", << <<"w2">> >>) } }
    \cup
    { [subcommand |-> "open", repo |-> r, uri |-> u, uris |-> UrisNull,
       reference |-> Null, createBranch |-> Null] :
         r \in RepoArgs, u \in {NoUri, <<"w2">>} }

\* Mutant of InitialCounter: the supplied answers are not counted.
InitialCounterZero(args) == 0

InitialCounter(args) ==
    LET forSubcommand ==
            CASE args.subcommand = "create" ->
                    (IF args.uri # NoUri THEN 1 ELSE 0)
                    + (IF args.reference # Null THEN 1 ELSE 0)
              [] args.subcommand = "delete" ->
                    IF /\ args.uris.kind # "null"
                       /\ (args.uris.kind # "array" \/ Len(args.uris.items) # 0)
                    THEN 1 ELSE 0
              [] args.subcommand = "open" ->
                    IF args.uri # NoUri THEN 1 ELSE 0
              [] OTHER -> 0
    IN  (IF args.subcommand # Null THEN 1 + forSubcommand ELSE 0)
        + (IF args.repo # Null THEN 1 ELSE 0)

InitialState(args) ==
    [counter |-> InitialCounter(args),
     subcommand |-> args.subcommand,
     repo |-> args.repo,
     uri |-> args.uri,
     uris |-> args.uris,
     reference |-> args.reference,
     createBranch |-> args.createBranch,
     flags |-> {}]

NoAnswers ==
    [subcommand |-> Null, repo |-> Null, reference |-> Null, path |-> NoUri,
     confirm |-> [context |-> NoUri, item |-> {}], createBranch |-> Null,
     uris |-> <<>>, uri |-> NoUri, flags |-> {}]

InitWith(argStates, worktreeLists) ==
    \E args \in argStates, n \in 1..2, d \in DefaultUris, p \in BOOLEAN,
       w \in worktreeLists :
        /\ pc = "steps"
        /\ state = InitialState(args)
        /\ context = [repos |-> SubSeq(OpenRepositories, 1, n),
                      defaultUri |-> NoUri, worktrees |-> <<>>]
        /\ skippedStepTwo = FALSE
        /\ uri = NoUri
        /\ idx = 0
        /\ returned = Null
        /\ env = [defaultUri |-> d, promptForLocation |-> p, worktrees |-> w,
                  args |-> args]
        /\ first = Null
        /\ cur = Null
        /\ prev = [step |-> Null, back |-> FALSE, skipped |-> FALSE]
        /\ nBreaks = 0
        /\ ans = [NoAnswers EXCEPT !.subcommand = args.subcommand,
                                   !.repo = args.repo,
                                   !.reference = args.reference,
                                   !.path = IF args.subcommand = "create"
                                            THEN args.uri ELSE NoUri,
                                   !.uri = IF args.subcommand = "open"
                                           THEN args.uri ELSE NoUri,
                                   !.uris = args.uris.items,
                                   !.createBranch = args.createBranch]
        /\ log = <<>>
        /\ access = [calls |-> 0, allowed |-> FALSE, denied |-> FALSE,
                     entered |-> 0]
        \* the subscription service is constructed and no operation on it
        \* is started
        /\ InitServiceWith({FreeSubscription}, 0, 0)

Init == InitWith(ArgStates, {TwoWorktrees})

\* ---------------------------------------------------------------- steps()
\* Container.instance.git.getRepository(path), as pickRepositoryStep uses it
\* for a state.repo given as a string.
getRepository(path) == OpenRepositories[1]

\* Where a Break of the subcommand pick leads (line 180: break).
AfterSubcommandBreak == "return"

\* Where a Break of the repository pick leads (line 196: continue).
AfterRepositoryBreak == "steps"

\* Mutant of NeedsRepository: a repository given as a string is taken as is.
NeedsRepositoryForNull(s) == s.counter < 2 \/ s.repo = Null

\* Line 187: whether the repository step is (re)visited.
NeedsRepository(s) == s.counter < 2 \/ s.repo = Null \/ IsString(s.repo)

\* Line 175: whether the subcommand pick is (re)visited.
NeedsSubcommand(s) == s.counter < 1 \/ s.subcommand = Null

\* Lines 172-178: the head of the top-level loop, up to the first yield.
StepsLoop ==
    /\ pc = "steps"
    /\ IF ~canStepsContinue(state)
       THEN pc' = "return" /\ NoYield
       ELSE IF NeedsSubcommand(state)
            THEN Yield("subcommand", "y_subcommand")
            ELSE pc' = "repo" /\ NoYield
    /\ access' = [access EXCEPT !.allowed = FALSE]
    /\ UNCHANGED <<state, context, skippedStepTwo, uri, idx, returned, env,
                   prev, nBreaks, ans, log>>
    /\ UNCHANGED svars

\* Lines 178-182 with pickSubcommandStep (240-268): the pick is answered.
PickSubcommandStep ==
    /\ pc = "y_subcommand"
    /\ \/ \E a \in Subcommands :
            /\ Resume(FALSE)
            /\ state' = [StepAccepted(state) EXCEPT !.subcommand = a]
            /\ pc' = "repo"
            /\ ans' = [ans EXCEPT !.subcommand = a]
       \/ /\ CanGoBack
          /\ Resume(TRUE)
          /\ state' = StepBroken(state)
          /\ pc' = AfterSubcommandBreak
          /\ ans' = ans
    /\ UNCHANGED <<context, skippedStepTwo, uri, idx, returned, env, first, cur,
                   log, access>>
    /\ UNCHANGED svars

\* Lines 185-195: the repository step, auto-selected when one repository is
\* open; pickRepositoryStep resolves a string without yielding.
SelectRepository ==
    /\ pc = "repo"
    /\ IF NeedsRepository(state)
       THEN IF Len(context.repos) = 1
            THEN /\ skippedStepTwo' = TRUE
                 /\ state' = [state EXCEPT !.counter = @ + 1,
                                           !.repo = context.repos[1]]
                 /\ pc' = "access"
                 /\ NoYield
            ELSE /\ skippedStepTwo' = FALSE
                 /\ IF IsString(state.repo)
                    THEN /\ state' = [state EXCEPT !.repo = getRepository(@)]
                         /\ pc' = "access"
                         /\ NoYield
                    ELSE /\ state' = state
                         /\ Yield("repository", "y_repo")
       ELSE /\ pc' = "access"
            /\ UNCHANGED <<state, skippedStepTwo, first, cur>>
    /\ UNCHANGED <<context, uri, idx, returned, env, prev, nBreaks, ans, log,
                   access>>
    /\ UNCHANGED svars

\* Lines 195-198: the repository pick is answered.
PickRepositoryStep ==
    /\ pc = "y_repo"
    /\ \/ \E i \in 1..Len(context.repos) :
            /\ Resume(FALSE)
            /\ state' = [StepAccepted(state) EXCEPT !.repo = context.repos[i]]
            /\ pc' = "access"
            /\ ans' = [ans EXCEPT !.repo = context.repos[i]]
       \/ /\ CanGoBack
          /\ Resume(TRUE)
          /\ state' = StepBroken(state)
          /\ pc' = AfterRepositoryBreak
          /\ ans' = ans
    /\ UNCHANGED <<context, skippedStepTwo, uri, idx, returned, env, first, cur,
                   log, access>>
    /\ UNCHANGED svars

\* Mutants of AfterAccess: the flow is entered whatever the check said; a
\* denial continues the loop instead of leaving it.
AfterAccessIgnored(allowed) == "dispatch"

AfterAccessContinues(allowed) == IF allowed THEN "dispatch" ELSE "steps"

\* Where control goes after ensureAccessStep (line 203: break on Break).
AfterAccess(allowed) == IF allowed THEN "dispatch" ELSE "return"

\* Lines 202-203: the entitlement check; the collaborator allows or denies.
EnsureAccessStep ==
    /\ pc = "access"
    /\ \E allowed \in BOOLEAN :
        /\ access' = [access EXCEPT !.calls = @ + 1, !.allowed = allowed,
                                    !.denied = ~allowed]
        /\ pc' = AfterAccess(allowed)
    /\ UNCHANGED <<state, context, skippedStepTwo, uri, idx, returned, env,
                   first, cur, prev, nBreaks, ans, log>>
    /\ UNCHANGED svars

\* Lines 207-225: the dispatch on the subcommand.
Dispatch ==
    /\ pc = "dispatch"
    /\ CASE state.subcommand = "create" ->
              pc' = "c_enter" /\ state' = state
         [] state.subcommand = "delete" ->
              /\ pc' = "d_enter"
              /\ state' = IF state.uris.kind = "uri"
                          THEN [state EXCEPT !.uris = UrisOf("array", @.items)]
                          ELSE state
         [] state.subcommand = "open" ->
              pc' = "o_enter" /\ state' = state
    /\ access' = [access EXCEPT !.entered = @ + 1]
    /\ UNCHANGED <<context, skippedStepTwo, uri, idx, returned, env, first, cur,
                   prev, nBreaks, ans, log>>
    /\ UNCHANGED svars

\* Lines 210-212: createCommandSteps returned: the chosen path is cleared.
CreateReturned ==
    /\ pc = "c_exit"
    /\ state' = [state EXCEPT !.uri = NoUri]
    /\ pc' = "backup"
    /\ UNCHANGED <<context, skippedStepTwo, uri, idx, returned, env, first, cur,
                   prev, nBreaks, ans, log, access>>
    /\ UNCHANGED svars

\* Mutant of BackUpPastSkipped: the counter is moved forward.
BackUpPastSkippedForward ==
    /\ pc = "backup"
    /\ state' = IF skippedStepTwo THEN [state EXCEPT !.counter = @ + 1]
                ELSE state
    /\ pc' = "steps"
    /\ UNCHANGED <<context, skippedStepTwo, uri, idx, returned, env, first, cur,
                   prev, nBreaks, ans, log, access>>
    /\ UNCHANGED svars

\* Lines 231-235: back up past the repository step when it was skipped.
BackUpPastSkipped ==
    /\ pc = "backup"
    /\ state' = IF skippedStepTwo THEN [state EXCEPT !.counter = @ - 1]
                ELSE state
    /\ pc' = "steps"
    /\ UNCHANGED <<context, skippedStepTwo, uri, idx, returned, env, first, cur,
                   prev, nBreaks, ans, log, access>>
    /\ UNCHANGED svars

\* Line 237: the value steps() returns.
StepsResult(s) == IF s.counter < 0 THEN Break ELSE Undefined

StepsReturn ==
    /\ pc = "return"
    /\ returned' = StepsResult(state)
    /\ pc' = "done"
    /\ UNCHANGED <<state, context, skippedStepTwo, uri, idx, env, first, cur, prev,
                   nBreaks, ans, log, access>>
    /\ UNCHANGED svars

\* ---------------------------------------------------- createCommandSteps
\* An entry of the history of the executed action: a call of the worktree
\* store, a dialog or a message, and how it ended.
Event(op, target, options, outcome) ==
    [op |-> op, uri |-> target, options |-> options, outcome |-> outcome]

NoOptions == [commitish |-> Null, createBranch |-> Null, detach |-> FALSE,
              force |-> FALSE]

\* Lines 270-277: the default location is fetched once per invocation.
CreateCommandEnter ==
    /\ pc = "c_enter"
    /\ context' = IF context.defaultUri = NoUri
                  THEN [context EXCEPT !.defaultUri = env.defaultUri]
                  ELSE context
    /\ pc' = "create"
    /\ UNCHANGED <<state, skippedStepTwo, uri, idx, returned, env, first, cur, prev,
                   nBreaks, ans, log, access>>
    /\ UNCHANGED svars

\* Line 282: whether the reference pick is (re)visited.
NeedsReference(s) == s.counter < 3 \/ s.reference = Null

\* Line 296: whether the location step is (re)visited.
NeedsPath(s) == s.counter < 4 \/ s.uri = NoUri

\* Lines 297-301: the default location is taken without asking.
UsesDefaultPath(s) ==
    /\ s.reference # Null
    /\ ~env.promptForLocation
    /\ context.defaultUri # NoUri

\* Mutant of AfterReferenceBreak: continue instead of break.
AfterReferenceBreakContinues == "create"

\* Where a Break leads in the create loop: break at the first step (291),
\* continue at the later ones (311, 322, 340).
AfterReferenceBreak == "c_exit"
AfterPathBreak == "create"
AfterCreateConfirmBreak == "create"
AfterBranchNameBreak == "create"

\* Lines 279-283: the head of the create loop.
CreateLoop ==
    /\ pc = "create"
    /\ IF ~canStepsContinue(state)
       THEN pc' = "c_exit" /\ NoYield
       ELSE IF NeedsReference(state)
            THEN Yield("reference", "y_ref")
            ELSE pc' = "c_path" /\ NoYield
    /\ UNCHANGED <<state, context, skippedStepTwo, uri, idx, returned, env,
                   prev, nBreaks, ans, log, access>>
    /\ UNCHANGED svars

\* Lines 283-293: pickBranchOrTagStep is answered.
PickBranchOrTagStep ==
    /\ pc = "y_ref"
    /\ \/ \E a \in References :
            /\ Resume(FALSE)
            /\ state' = [StepAccepted(state) EXCEPT !.reference = a]
            /\ pc' = "c_path"
            /\ ans' = [ans EXCEPT !.reference = a]
       \/ /\ CanGoBack
          /\ Resume(TRUE)
          /\ state' = StepBroken(state)
          /\ pc' = AfterReferenceBreak
          /\ ans' = ans
    /\ UNCHANGED <<context, skippedStepTwo, uri, idx, returned, env, first, cur,
                   log, access>>
    /\ UNCHANGED svars

\* Lines 296-304: the location step, skipped for a known default location.
CreateChoosePath ==
    /\ pc = "c_path"
    /\ IF NeedsPath(state)
       THEN IF UsesDefaultPath(state)
            THEN /\ state' = [state EXCEPT !.uri = context.defaultUri]
                 /\ pc' = "c_confirm"
                 /\ NoYield
            ELSE /\ state' = state
                 /\ Yield("path", "y_path")
       ELSE /\ pc' = "c_confirm"
            /\ UNCHANGED <<state, first, cur>>
    /\ UNCHANGED <<context, skippedStepTwo, uri, idx, returned, env, prev,
                   nBreaks, ans, log, access>>
    /\ UNCHANGED svars

\* Lines 304-313 with createCommandChoosePathStep (399-435).
CreateCommandChoosePathStep ==
    /\ pc = "y_path"
    /\ \/ \E a \in PathChoices :
            /\ Resume(FALSE)
            /\ state' = [StepAccepted(state) EXCEPT !.uri = a]
            /\ pc' = "c_confirm"
            /\ ans' = [ans EXCEPT !.path = a]
       \/ /\ CanGoBack
          /\ Resume(TRUE)
          /\ state' = StepBroken(state)
          /\ pc' = AfterPathBreak
          /\ ans' = ans
    /\ UNCHANGED <<context, skippedStepTwo, uri, idx, returned, env, first, cur,
                   log, access>>
    /\ UNCHANGED svars

\* Lines 441-457: the chosen location with the repository's folder name
\* appended, unless it is the repository folder or lies inside it.
ChosenWithRepoSubfoldersUri(chosenUri) ==
    IF FolderUri # chosenUri /\ ~isDescendent(chosenUri, FolderUri)
    THEN joinPath(chosenUri, <<basename(FolderUri)>>)
    ELSE chosenUri

\* Lines 482-558: the items of the create confirm step; `context` is the
\* location the item stands for, `item` the flags it selects.
CreateConfirmItems(s) ==
    LET chosenUri == s.uri
        allowCreateInRoot == FolderUri # chosenUri
        withRepo == ChosenWithRepoSubfoldersUri(chosenUri)
    IN  (IF s.reference # Null
         THEN {[context |-> joinPath(withRepo, RefSegments(s.reference)),
                item |-> {}]}
         ELSE {})
        \cup {[context |-> withRepo, item |-> {"-b"}]}
        \cup (IF allowCreateInRoot
              THEN {[context |-> chosenUri, item |-> {}],
                    [context |-> chosenUri, item |-> {"-b"}]}
              ELSE {})

\* Mutant of FlagsBeforeConfirm: the flags of the earlier pass are kept.
FlagsBeforeConfirmKept(flags) == flags

\* Line 318: the flags the confirm step starts from.
FlagsBeforeConfirm(flags) == {}

\* Line 328: whether the branch name is asked for.
NeedsBranchName(s) == "-b" \in s.flags /\ s.createBranch = Null

\* Lines 317-321: the flags are cleared and the confirm step is yielded.
CreateConfirm ==
    /\ pc = "c_confirm"
    /\ state' = [state EXCEPT !.flags = FlagsBeforeConfirm(@)]
    /\ Yield("createConfirm", "y_cconfirm")
    /\ UNCHANGED <<context, skippedStepTwo, uri, idx, returned, env, prev,
                   nBreaks, ans, log, access>>
    /\ UNCHANGED svars

\* Lines 321-331 with createCommandConfirmStep (561-564).
CreateCommandConfirmStep ==
    /\ pc = "y_cconfirm"
    /\ \/ \E a \in CreateConfirmItems(state) :
            LET s1 == [StepAccepted(state) EXCEPT !.flags = a.item] IN
            /\ Resume(FALSE)
            /\ state' = s1
            /\ uri' = a.context
            /\ ans' = [ans EXCEPT !.confirm = a]
            /\ IF NeedsBranchName(s1)
               THEN Yield("branchName", "y_branch")
               ELSE pc' = "c_end" /\ NoYield
       \/ /\ CanGoBack
          /\ Resume(TRUE)
          /\ state' = StepBroken(state)
          /\ pc' = AfterCreateConfirmBreak
          /\ UNCHANGED <<uri, ans, first, cur>>
    /\ UNCHANGED <<context, skippedStepTwo, idx, returned, env, log, access>>
    /\ UNCHANGED svars

\* Lines 331-344: inputBranchNameStep is answered.
InputBranchNameStep ==
    /\ pc = "y_branch"
    /\ \/ \E a \in BranchNames :
            /\ Resume(FALSE)
            /\ state' = [StepAccepted(state) EXCEPT !.createBranch = a]
            /\ uri' = joinPath(uri, <<a>>)
            /\ pc' = "c_end"
            /\ ans' = [ans EXCEPT !.createBranch = a]
       \/ /\ CanGoBack
          /\ Resume(TRUE)
          /\ state' = StepBroken(state)
          /\ pc' = AfterBranchNameBreak
          /\ UNCHANGED <<uri, ans>>
    /\ UNCHANGED <<context, skippedStepTwo, idx, returned, env, first, cur, log,
                   access>>
    /\ UNCHANGED svars

\* Line 346: the steps are over, the worktree is created next.
CreateEndSteps ==
    /\ pc = "c_end"
    /\ state' = endSteps(state)
    /\ pc' = "c_try"
    /\ UNCHANGED <<context, skippedStepTwo, uri, idx, returned, env, first, cur,
                   prev, nBreaks, ans, log, access>>
    /\ UNCHANGED svars

\* How repo.createWorktree can end.
CreateOutcomes == {"ok", "AlreadyCheckedOut", "AlreadyExists", "Error"}

\* Mutant of CreateOptions: the branch name is passed as the commitish.
CreateOptionsBranchAsCommitish(s) ==
    [commitish |-> s.createBranch,
     createBranch |-> IF "-b" \in s.flags THEN s.createBranch ELSE Null,
     detach |-> "--detach" \in s.flags,
     force |-> "--force" \in s.flags]

\* Lines 356-361: the options createWorktree is called with.
CreateOptions(s) ==
    [commitish |-> s.reference,
     createBranch |-> IF "-b" \in s.flags THEN s.createBranch ELSE Null,
     detach |-> "--detach" \in s.flags,
     force |-> "--force" \in s.flags]

\* Mutants of OffersCreateAnyway: the offer is made again after a forced
\* attempt; the offer is also made when the folder already exists.
OffersCreateAnywayAgain(force, outcome) == outcome = "AlreadyCheckedOut"

OffersCreateAnywayForExisting(force, outcome) ==
    ~force /\ outcome \in {"AlreadyCheckedOut", "AlreadyExists"}

\* Lines 363-367: the failure for which 'Create Anyway' is offered.
OffersCreateAnyway(force, outcome) ==
    ~force /\ outcome = "AlreadyCheckedOut"

\* Lines 384-393: the message shown for the other failures.
CreateErrorMessage(outcome) ==
    IF outcome = "AlreadyExists" THEN "folder already exists"
    ELSE "unable to create"

\* Mutant of FlagsAfterCreateAnyway: the force flag is not added.
FlagsAfterCreateAnywayUnchanged(flags) == flags

\* Lines 380-383: what choosing 'Create Anyway' does to the flags.
FlagsAfterCreateAnyway(flags) == flags \cup {"--force"}

\* Lines 351-394: one attempt of the do-while loop, up to the dialog.
CreateWorktree ==
    /\ pc = "c_try"
    /\ \E outcome \in CreateOutcomes :
        LET force == "--force" \in state.flags
            call == Event("createWorktree", uri, CreateOptions(state), outcome)
        IN  CASE outcome = "ok" ->
                   /\ log' = Append(log, call)
                   /\ pc' = "create"
              [] outcome # "ok" /\ OffersCreateAnyway(force, outcome) ->
                   /\ log' = Append(log, call)
                   /\ pc' = "c_offer"
              [] OTHER ->
                   /\ log' = log \o <<call,
                             Event("showGenericErrorMessage", uri, NoOptions,
                                   CreateErrorMessage(outcome))>>
                   /\ pc' = "create"
    /\ UNCHANGED <<state, context, skippedStepTwo, uri, idx, returned, env,
                   first, cur, prev, nBreaks, ans, access>>
    /\ UNCHANGED svars

\* Lines 368-383: the 'Create Anyway' dialog is answered.
CreateAnywayDialog ==
    /\ pc = "c_offer"
    /\ \E choice \in {"Create Anyway", "Cancel"} :
        /\ log' = Append(log, Event("showWarningMessage", uri, NoOptions, choice))
        /\ IF choice = "Create Anyway"
           THEN /\ state' = [state EXCEPT !.flags = FlagsAfterCreateAnyway(@)]
                /\ pc' = "c_try"
           ELSE /\ state' = state
                /\ pc' = "create"
    /\ UNCHANGED <<context, skippedStepTwo, uri, idx, returned, env, first, cur,
                   prev, nBreaks, ans, access>>
    /\ UNCHANGED svars

\* ---------------------------------------------------- deleteCommandSteps
\* Line 575: whether the worktrees pick is (re)visited.
NeedsWorktrees(s) == s.counter < 3 \/ Len(s.uris.items) = 0

\* Line 579 and pickWorktreesStep: the non-empty selections of worktrees
\* that are not opened, in the order of the list.
WorktreeSelections(worktrees) ==
    LET offered == {worktrees[i].uri : i \in {j \in 1..Len(worktrees) :
                                                 ~worktrees[j].opened}}
        urisOf == [i \in 1..Len(worktrees) |-> worktrees[i].uri]
    IN  {SelectSeq(urisOf, LAMBDA u : u \in chosen) :
            chosen \in (SUBSET offered) \ {{}}}

AfterWorktreesBreak == "backup"
AfterDeleteConfirmBreak == "delete"

\* Lines 568-572: the worktrees of the repository are fetched.
DeleteCommandEnter ==
    /\ pc = "d_enter"
    /\ context' = [context EXCEPT !.worktrees = env.worktrees]
    /\ pc' = "delete"
    /\ UNCHANGED <<state, skippedStepTwo, uri, idx, returned, env, first, cur, prev,
                   nBreaks, ans, log, access>>
    /\ UNCHANGED svars

\* Lines 574-592: the head of the delete loop, up to the next yield.
DeleteLoop ==
    /\ pc = "delete"
    /\ IF ~canStepsContinue(state)
       THEN pc' = "backup" /\ NoYield
       ELSE IF NeedsWorktrees(state)
            THEN Yield("worktrees", "y_wts")
            ELSE Yield("deleteConfirm", "y_dconfirm")
    /\ UNCHANGED <<state, context, skippedStepTwo, uri, idx, returned, env,
                   prev, nBreaks, ans, log, access>>
    /\ UNCHANGED svars

\* Lines 578-592: pickWorktreesStep is answered; the confirm step follows.
PickWorktreesStep ==
    /\ pc = "y_wts"
    /\ \/ \E a \in WorktreeSelections(context.worktrees) :
            /\ Resume(FALSE)
            /\ state' = [StepAccepted(state) EXCEPT !.uris = UrisOf("array", a)]
            /\ ans' = [ans EXCEPT !.uris = a]
            /\ Yield("deleteConfirm", "y_dconfirm")
       \/ /\ CanGoBack
          /\ Resume(TRUE)
          /\ state' = StepBroken(state)
          /\ pc' = AfterWorktreesBreak
          /\ UNCHANGED <<ans, first, cur>>
    /\ UNCHANGED <<context, skippedStepTwo, uri, idx, returned, env, log,
                   access>>
    /\ UNCHANGED svars

\* Lines 658-677: the items of the delete confirm step.
DeleteConfirmItems == {{}, {"--force"}}

\* Lines 592-599 with deleteCommandConfirmStep (654-684).
DeleteCommandConfirmStep ==
    /\ pc = "y_dconfirm"
    /\ \/ \E a \in DeleteConfirmItems :
            /\ Resume(FALSE)
            /\ state' = endSteps([StepAccepted(state) EXCEPT !.flags = a])
            /\ ans' = [ans EXCEPT !.flags = a]
            /\ idx' = 1
            /\ pc' = "d_for"
       \/ /\ CanGoBack
          /\ Resume(TRUE)
          /\ state' = StepBroken(state)
          /\ pc' = AfterDeleteConfirmBreak
          /\ UNCHANGED <<ans, idx>>
    /\ UNCHANGED <<context, skippedStepTwo, uri, returned, env, first, cur, log,
                   access>>
    /\ UNCHANGED svars

\* Lines 599-602: the for loop over state.uris.
DeleteNextTarget ==
    /\ pc = "d_for"
    /\ pc' = IF idx > Len(state.uris.items) THEN "delete" ELSE "d_try"
    /\ UNCHANGED <<state, context, skippedStepTwo, uri, idx, returned, env,
                   first, cur, prev, nBreaks, ans, log, access>>
    /\ UNCHANGED svars

\* Lines 607-609: the status of the worktree whose uri is the target; a
\* target that is no worktree of the list has no status, so no changes.
StatusOutcomes(worktrees, target) ==
    IF \E i \in 1..Len(worktrees) : worktrees[i].uri = target
    THEN {"changes", "clean"} ELSE {"clean"}

\* Lines 603-609: a forced attempt first looks for uncommitted changes.
DeleteCheckStatus ==
    /\ pc = "d_try"
    /\ IF "--force" \in state.flags
       THEN \E status \in StatusOutcomes(context.worktrees,
                                         state.uris.items[idx]) :
               /\ log' = Append(log, Event("getStatus", state.uris.items[idx],
                                           NoOptions, status))
               /\ pc' = IF status = "changes" THEN "d_warn" ELSE "d_call"
       ELSE pc' = "d_call" /\ log' = log
    /\ UNCHANGED <<state, context, skippedStepTwo, uri, idx, returned, env,
                   first, cur, prev, nBreaks, ans, access>>
    /\ UNCHANGED svars

\* Mutants of ForceDeleteWarning: declining skips the target and goes on
\* with the next one; the answer is ignored and the worktree is deleted.
ForceDeleteWarningSkipsTarget ==
    /\ pc = "d_warn"
    /\ \E choice \in {"Force Delete", "Cancel"} :
        /\ log' = Append(log, Event("showWarningMessage", state.uris.items[idx],
                                    NoOptions, choice))
        /\ pc' = IF choice = "Force Delete" THEN "d_call" ELSE "d_for"
        /\ idx' = IF choice = "Force Delete" THEN idx ELSE idx + 1
    /\ UNCHANGED <<state, context, skippedStepTwo, uri, returned, env,
                   first, cur, prev, nBreaks, ans, access>>
    /\ UNCHANGED svars

ForceDeleteWarningIgnored ==
    /\ pc = "d_warn"
    /\ \E choice \in {"Force Delete", "Cancel"} :
        /\ log' = Append(log, Event("showWarningMessage", state.uris.items[idx],
                                    NoOptions, choice))
        /\ pc' = "d_call"
    /\ UNCHANGED <<state, context, skippedStepTwo, uri, idx, returned, env,
                   first, cur, prev, nBreaks, ans, access>>
    /\ UNCHANGED svars

\* Lines 610-620: the uncommitted-changes warning; declining returns from
\* deleteCommandSteps.
ForceDeleteWarning ==
    /\ pc = "d_warn"
    /\ \E choice \in {"Force Delete", "Cancel"} :
        /\ log' = Append(log, Event("showWarningMessage", state.uris.items[idx],
                                    NoOptions, choice))
        /\ pc' = IF choice = "Force Delete" THEN "d_call" ELSE "backup"
    /\ UNCHANGED <<state, context, skippedStepTwo, uri, idx, returned, env,
                   first, cur, prev, nBreaks, ans, access>>
    /\ UNCHANGED svars

\* How repo.deleteWorktree can end: a WorktreeDeleteError of reason
\* MainWorkingTree, HasChanges or none of the two, or another error.
DeleteOutcomes == {"ok", "MainWorkingTree", "HasChanges", "DeleteError", "Error"}

IsWorktreeDeleteError(outcome) ==
    outcome \in {"MainWorkingTree", "HasChanges", "DeleteError"}

\* Mutant of OffersForceDelete: the offer is made after a forced attempt too.
OffersForceDeleteAgain(force, outcome) ==
    /\ IsWorktreeDeleteError(outcome)
    /\ outcome # "MainWorkingTree"

\* Lines 625-644: the failure for which 'Force Delete' is offered.
OffersForceDelete(force, outcome) ==
    /\ IsWorktreeDeleteError(outcome)
    /\ outcome # "MainWorkingTree"
    /\ ~force

\* Mutant of AfterDeleteFailure: the first failure ends the batch.
AfterDeleteFailureReturns == "backup"

\* Lines 648-650: after a failure that is not retried the do-while loop ends
\* and the for loop goes on to the next target.
AfterDeleteFailure == "d_for"

\* Lines 623-648: deleteWorktree is called for the current target.
DeleteWorktree ==
    /\ pc = "d_call"
    /\ \E outcome \in DeleteOutcomes :
        LET force == "--force" \in state.flags
            target == state.uris.items[idx]
            call == Event("deleteWorktree", target,
                          [NoOptions EXCEPT !.force = force], outcome)
        IN  CASE outcome # "ok" /\ OffersForceDelete(force, outcome) ->
                   /\ log' = Append(log, call)
                   /\ idx' = idx
                   /\ pc' = "d_offer"
              [] outcome = "MainWorkingTree" ->
                   /\ log' = log \o <<call,
                             Event("showErrorMessage", target, NoOptions,
                                   "unable to delete the main worktree")>>
                   /\ idx' = idx + 1
                   /\ pc' = AfterDeleteFailure
              [] outcome = "Error" ->
                   /\ log' = log \o <<call,
                             Event("showGenericErrorMessage", target, NoOptions,
                                   "unable to delete")>>
                   /\ idx' = idx + 1
                   /\ pc' = AfterDeleteFailure
              [] OTHER ->
                   /\ log' = Append(log, call)
                   /\ idx' = idx + 1
                   /\ pc' = "d_for"
    /\ UNCHANGED <<state, context, skippedStepTwo, uri, returned, env, first, cur,
                   prev, nBreaks, ans, access>>
    /\ UNCHANGED svars

\* Mutant of ForceDeleteOffer: the force flag is not added for the retry.
ForceDeleteOfferWithoutFlag ==
    /\ pc = "d_offer"
    /\ \E choice \in {"Force Delete", "Cancel"} :
        /\ log' = Append(log, Event("showErrorMessage", state.uris.items[idx],
                                    NoOptions, choice))
        /\ state' = state
        /\ IF choice = "Force Delete"
           THEN idx' = idx /\ pc' = "d_try"
           ELSE idx' = idx + 1 /\ pc' = AfterDeleteFailure
    /\ UNCHANGED <<context, skippedStepTwo, uri, returned, env, first, cur, prev,
                   nBreaks, ans, access>>
    /\ UNCHANGED svars

\* Lines 629-643: the 'Force Delete' offer is answered.
ForceDeleteOffer ==
    /\ pc = "d_offer"
    /\ \E choice \in {"Force Delete", "Cancel"} :
        /\ log' = Append(log, Event("showErrorMessage", state.uris.items[idx],
                                    NoOptions, choice))
        /\ IF choice = "Force Delete"
           THEN /\ state' = [state EXCEPT !.flags = @ \cup {"--force"}]
                /\ idx' = idx
                /\ pc' = "d_try"
           ELSE /\ state' = state
                /\ idx' = idx + 1
                /\ pc' = AfterDeleteFailure
    /\ UNCHANGED <<context, skippedStepTwo, uri, returned, env, first, cur, prev,
                   nBreaks, ans, access>>
    /\ UNCHANGED svars

\* ------------------------------------------------------ openCommandSteps
\* Mutant of NeedsWorktree: the worktree is always asked for.
NeedsWorktreeAlways(s) == TRUE

\* Line 694: whether the worktree pick is (re)visited.
NeedsWorktree(s) == s.counter < 3 \/ s.uri = NoUri

AfterWorktreeBreak == "backup"
AfterOpenConfirmBreak == "open"

\* Lines 687-691: the worktrees of the repository are fetched.
OpenCommandEnter ==
    /\ pc = "o_enter"
    /\ context' = [context EXCEPT !.worktrees = env.worktrees]
    /\ pc' = "open"
    /\ UNCHANGED <<state, skippedStepTwo, uri, idx, returned, env, first, cur, prev,
                   nBreaks, ans, log, access>>
    /\ UNCHANGED svars

\* Lines 693-710: the head of the open loop, up to the next yield.
OpenLoop ==
    /\ pc = "open"
    /\ IF ~canStepsContinue(state)
       THEN pc' = "backup" /\ NoYield
       ELSE IF NeedsWorktree(state)
            THEN Yield("worktree", "y_wt")
            ELSE Yield("openConfirm", "y_oconfirm")
    /\ UNCHANGED <<state, context, skippedStepTwo, uri, idx, returned, env,
                   prev, nBreaks, ans, log, access>>
    /\ UNCHANGED svars

\* Lines 697-710: pickWorktreeStep is answered; the confirm step follows.
PickWorktreeStep ==
    /\ pc = "y_wt"
    /\ \/ \E i \in 1..Len(context.worktrees) :
            /\ Resume(FALSE)
            /\ state' = [StepAccepted(state) EXCEPT
                            !.uri = context.worktrees[i].uri]
            /\ ans' = [ans EXCEPT !.uri = context.worktrees[i].uri]
            /\ Yield("openConfirm", "y_oconfirm")
       \/ /\ CanGoBack
          /\ Resume(TRUE)
          /\ state' = StepBroken(state)
          /\ pc' = AfterWorktreeBreak
          /\ UNCHANGED <<ans, first, cur>>
    /\ UNCHANGED <<context, skippedStepTwo, uri, idx, returned, env, log,
                   access>>
    /\ UNCHANGED svars

\* Lines 730-737: the items of the open confirm step.
OpenConfirmItems == {{}, {"--new-window"}}

\* Mutant of OpenLocation: the flags are ignored.
OpenLocationCurrent(flags) == "CurrentWindow"

\* Lines 719-721: the window the worktree is opened in.
OpenLocation(flags) ==
    IF "--new-window" \in flags THEN "NewWindow" ELSE "CurrentWindow"

\* Line 717: the worktree whose uri is state.uri, NoUri when there is none.
FindWorktree(worktrees, u) ==
    IF \E i \in 1..Len(worktrees) : worktrees[i].uri = u THEN u ELSE NoUri

\* Lines 710-722 with openCommandConfirmStep (726-744).
OpenCommandConfirmStep ==
    /\ pc = "y_oconfirm"
    /\ \/ \E a \in OpenConfirmItems :
            /\ Resume(FALSE)
            /\ state' = endSteps([StepAccepted(state) EXCEPT !.flags = a])
            /\ ans' = [ans EXCEPT !.flags = a]
            /\ log' = Append(log, Event("Worktree.open",
                                        FindWorktree(context.worktrees, state.uri),
                                        NoOptions, OpenLocation(a)))
            /\ pc' = "open"
       \/ /\ CanGoBack
          /\ Resume(TRUE)
          /\ state' = StepBroken(state)
          /\ pc' = AfterOpenConfirmBreak
          /\ UNCHANGED <<ans, log>>
    /\ UNCHANGED <<context, skippedStepTwo, uri, idx, returned, env, first, cur,
                   access>>
    /\ UNCHANGED svars

\* ---------------------------------------------------------- specification
Next ==
    \/ StepsLoop
    \/ PickSubcommandStep
    \/ SelectRepository
    \/ PickRepositoryStep
    \/ EnsureAccessStep
    \/ Dispatch
    \/ CreateReturned
    \/ BackUpPastSkipped
    \/ StepsReturn
    \/ CreateCommandEnter
    \/ CreateLoop
    \/ PickBranchOrTagStep
    \/ CreateChoosePath
    \/ CreateCommandChoosePathStep
    \/ CreateConfirm
    \/ CreateCommandConfirmStep
    \/ InputBranchNameStep
    \/ CreateEndSteps
    \/ CreateWorktree
    \/ CreateAnywayDialog
    \/ DeleteCommandEnter
    \/ DeleteLoop
    \/ PickWorktreesStep
    \/ DeleteCommandConfirmStep
    \/ DeleteNextTarget
    \/ DeleteCheckStatus
    \/ ForceDeleteWarning
    \/ DeleteWorktree
    \/ ForceDeleteOffer
    \/ OpenCommandEnter
    \/ OpenLoop
    \/ PickWorktreeStep
    \/ OpenCommandConfirmStep

Spec == Init /\ [][Next]_vars

\* A command started for a batch of worktrees to delete: no state at all, or
\* the delete subcommand with the repository and the three worktrees that
\* can be deleted. Two repositories are open and the location settings of
\* the create flow are fixed.
BatchArgStates ==
    { [subcommand |-> Null, repo |-> Null, uri |-> NoUri, uris |-> UrisNull,
       reference |-> Null, createBranch |-> Null],
      [subcommand |-> "delete", repo |-> OpenRepositories[1], uri |-> NoUri,
       uris |-> UrisOf("array", << <<"w2">>, <<"w3">>, <<"w4">> >>),
       reference |-> Null, createBranch |-> Null] }

InitBatch ==
    /\ InitWith(BatchArgStates, {FourWorktrees})
    /\ Len(context.repos) = 2
    /\ env.defaultUri = NoUri
    /\ env.promptForLocation

SpecBatch == InitBatch /\ [][Next]_vars

\* A command started without any state, with the user answering every step
\* and the collaborators answering every call: each step of the generator
\* that can be taken eventually is.
LiveArgStates ==
    { [subcommand |-> Null, repo |-> Null, uri |-> NoUri, uris |-> UrisNull,
       reference |-> Null, createBranch |-> Null] }

InitLive ==
    /\ InitWith(LiveArgStates, {TwoWorktrees})
    /\ env.defaultUri = NoUri
    /\ env.promptForLocation

SpecLive == InitLive /\ [][Next]_vars /\ WF_vars(Next)

\* The wizard while the service runs: no command is under way.
WizardUnused ==
    \E args \in LiveArgStates :
        /\ pc = "done"
        /\ state = InitialState(args)
        /\ context = [repos |-> <<>>, defaultUri |-> NoUri, worktrees |-> <<>>]
        /\ skippedStepTwo = FALSE
        /\ uri = NoUri
        /\ idx = 0
        /\ returned = Null
        /\ env = [defaultUri |-> NoUri, promptForLocation |-> FALSE,
                  worktrees |-> <<>>, args |-> args]
        /\ first = Null
        /\ cur = Null
        /\ prev = [step |-> Null, back |-> FALSE, skipped |-> FALSE]
        /\ nBreaks = 0
        /\ ans = NoAnswers
        /\ log = <<>>
        /\ access = [calls |-> 0, allowed |-> FALSE, denied |-> FALSE,
                     entered |-> 0]

\* The subscription service under the operations of the user, the host and
\* its timers.
InitAccount ==
    InitServiceWith(StoredSubscriptions, MaxOps, 0) /\ WizardUnused

SpecService == InitAccount /\ [][NextService]_vars

\* The service of a signed-in user, with one more operation and a provider
\* that refreshes the access token of the session once.
InitRace ==
    /\ InitServiceWith({s \in StoredSubscriptions : s.account # NoAccount},
                       MaxOps + 1, 1)
    /\ WizardUnused

SpecRace == InitRace /\ [][NextService]_vars

\* Lines 599-605 on a clock that the timer paces: six hours pass while no
\* operation is pending (a lookup and its check-in take less than that), and
\* at their end the validation timer, when it is set, fires.  The timer is
\* set when a check-in settles (line 589), so that its firings are six,
\* twelve, ... hours after that.
TickDaily ==
    LET d == ensureSession("false,true", _session, _sessionPromise)
        due == /\ _validationTimer
               /\ \/ _lastValidatedDate = NoDate
                  \/ _lastValidatedDate \div 24 # (now + TickHours) \div 24
    IN  /\ Quiescent
        /\ now < MaxDailyTicks * TickHours
        /\ now' = now + TickHours
        /\ IF due /\ d.kind # "return"
           THEN /\ calls' = [calls EXCEPT !["false,true"] = CallAfter(d)]
                /\ _sessionPromise' = IF d.kind = "start" THEN "false,true"
                                      ELSE _sessionPromise
           ELSE UNCHANGED <<calls, _sessionPromise>>
        /\ UNCHANGED <<_session, _lastValidatedDate, _validationTimer,
                       provider, refreshes, previewTrialCalls, checkin, validating, auth,
                       logouts, raced, ops>>
        /\ UNCHANGED subscriptionVars
        /\ UNCHANGED wvars

\* The service left to itself for more than a day: sessions are looked up
\* (lines 105, 180, 184, 219) and the validation timer fires when due.
NextDaily ==
    \/ EnsureSession
    \/ \E k \in Keys : GetOrCreateSession(k)
    \/ \E k \in Keys : LogoutCoreInFlight(k)
    \/ CheckInSettles
    \/ \E k \in Keys : AfterCheckIn(k)
    \/ TickDaily

SpecDaily == InitAccount /\ [][NextDaily]_vars

\* ================================================================ claims
YieldPcs == {"y_subcommand", "y_repo", "y_ref", "y_path", "y_cconfirm",
             "y_branch", "y_wts", "y_dconfirm", "y_wt", "y_oconfirm"}

\* The generator is suspended at a yield: `cur` is the step just yielded and
\* `prev` the step answered before it.
AtYield == pc \in YieldPcs

\* The position of a step in the order of the wizard.
Rank(step) ==
    CASE step = "subcommand" -> 1
      [] step = "repository" -> 2
      [] step \in {"reference", "worktrees", "worktree"} -> 3
      [] step = "path" -> 4
      [] step \in {"createConfirm", "deleteConfirm", "openConfirm"} -> 5
      [] step = "branchName" -> 6
      [] OTHER -> 0

IsCall(e) == e.op \in {"createWorktree", "deleteWorktree", "Worktree.open"}

\* The first event of the executed action carries the answers given.
FirstEventMatchesAnswers ==
    LET e == log[1] IN
    CASE ans.subcommand = "create" ->
           /\ e.op = "createWorktree"
           /\ e.uri = IF cur = "branchName"
                      THEN joinPath(ans.confirm.context, <<ans.createBranch>>)
                      ELSE ans.confirm.context
           /\ e.options = [commitish |-> ans.reference,
                           createBranch |-> IF "-b" \in ans.confirm.item
                                            THEN ans.createBranch ELSE Null,
                           detach |-> FALSE,
                           force |-> FALSE]
      [] ans.subcommand = "delete" ->
           /\ e.uri = ans.uris[1]
           /\ \/ e.op = "deleteWorktree"
                 /\ e.options.force = ("--force" \in ans.flags)
              \/ e.op = "getStatus" /\ "--force" \in ans.flags
      [] ans.subcommand = "open" ->
           /\ e.op = "Worktree.open"
           /\ e.uri = ans.uri
           /\ e.outcome = OpenLocation(ans.flags)
      [] OTHER -> FALSE

\* C1: in a run where no step is answered with Back, the steps are yielded
\* in the order of the wizard (so none is yielded twice), the state at the
\* execute point holds the answers, the run ends only after the action was
\* started (unless access was denied), and the action's first event (the
\* store call, or for a forced delete the status check before it) carries
\* the answers given.
C1_ForwardCompletion ==
    nBreaks = 0 =>
        /\ (AtYield /\ prev.step # Null) => Rank(prev.step) < Rank(cur)
        /\ (pc \in {"c_try", "d_for"} /\ Len(log) = 0) =>
              /\ state.subcommand = ans.subcommand
              /\ state.subcommand = "create" =>
                    /\ state.reference = ans.reference
                    /\ state.flags = ans.confirm.item
              /\ state.subcommand = "delete" =>
                    /\ state.uris.items = ans.uris
                    /\ state.flags = ans.flags
        /\ (pc = "done" /\ ~access.denied) => Len(log) > 0
        /\ Len(log) > 0 => FirstEventMatchesAnswers

\* C1 witness: a run from an empty initial state with two repositories in
\* which all six steps of the create flow were answered and the worktree
\* was created.
C1_Witness ==
    /\ nBreaks = 0
    /\ pc = "done"
    /\ first = "subcommand"
    /\ ans.repo = OpenRepositories[2]
    /\ Len(context.repos) = 2
    /\ env.promptForLocation
    /\ cur = "branchName"
    /\ Len(log) = 1 /\ log[1].op = "createWorktree" /\ log[1].outcome = "ok"
    /\ log[1].uri = <<"repo", "wts", "topic">>

\* The step a Back answer at `step` is expected to lead to: the step before
\* it, which for the create confirm step is the reference pick when the
\* location step is skipped for the default location.
PrecedingStep(step) ==
    CASE step = "repository" -> "subcommand"
      [] step = "path" -> "reference"
      [] step = "createConfirm" ->
           IF UsesDefaultPath(state) THEN "reference" ELSE "path"
      [] step = "branchName" -> "createConfirm"
      [] step = "deleteConfirm" -> "worktrees"
      [] step = "openConfirm" -> "worktree"
      [] OTHER -> Null

\* C2: a Back answer at a step that is not the first of its loop is followed
\* by the yield of exactly the step before it.
C2_StrictLifo ==
    (AtYield /\ prev.back /\ PrecedingStep(prev.step) # Null)
        => cur = PrecedingStep(prev.step)

\* C3: after a Back answer at the subcommand pick the top-level loop is
\* left at once, no step is yielded and nothing is executed any more, and
\* steps() returns StepResult.Break.
C3_BreakAtSubcommandAborts ==
    (prev.step = "subcommand" /\ prev.back) =>
        /\ pc \in {"return", "done"}
        /\ cur = "subcommand"
        /\ log = <<>>
        /\ pc = "done" => returned = Break

FirstSteps == {"reference", "worktrees", "worktree"}

\* C4: with one open repository the repository pick is never yielded, and
\* a Back answer at the first step of the flow entered after the silent
\* selection is followed by the yield of the subcommand pick.
C4_AutoSkipSelfCorrecting ==
    Len(context.repos) = 1 =>
        /\ pc # "y_repo" /\ cur # "repository"
        /\ (AtYield /\ prev.back /\ prev.skipped /\ prev.step \in FirstSteps)
              => cur = "subcommand"

FlowPcs == {"c_enter", "create", "y_ref", "c_path", "y_path", "c_confirm",
            "y_cconfirm", "y_branch", "c_end", "c_try", "c_offer",
            "d_enter", "delete", "y_wts", "y_dconfirm", "d_for", "d_try",
            "d_warn", "d_call", "d_offer",
            "o_enter", "open", "y_wt", "y_oconfirm"}

\* C6: a subcommand flow runs only in an iteration of the top-level loop in
\* which the access check allowed it, and a denial ends the loop: no step
\* is yielded and nothing is executed after it.
C6_AccessGating ==
    /\ pc \in FlowPcs \cup {"dispatch"} => access.allowed
    /\ access.denied => pc \in {"return", "done"}

\* C6 witness: the check allowed one flow and, after the user went back out
\* of it, denied the next; the command ended.
C6_Witness ==
    /\ pc = "done"
    /\ access.denied
    /\ access.entered = 1
    /\ log = <<>>

\* C7: the access check is performed at most once in an invocation.
C7_AccessCheckedOnce == access.calls <= 1

\* C7 as amended: the access check is performed once before every entry
\* into a subcommand flow, so again when the user went back out of a flow
\* and enters one again; besides those there is at most the one check that
\* denied access.
C7_AccessCheckedPerEntry ==
    access.calls = access.entered
                   + (IF pc = "dispatch" \/ access.denied THEN 1 ELSE 0)

\* C7 witness: two flows were entered, each after a check of its own.
C7_Witness ==
    /\ access.entered = 2
    /\ access.calls = 2
    /\ pc \in FlowPcs

CreateCalls == {i \in 1..Len(log) : log[i].op = "createWorktree"}

IsCreateAnywayDialog(i) ==
    /\ i > 1
    /\ log[i].op = "showWarningMessage"
    /\ log[i - 1].op = "createWorktree"

\* C8: a non-forced createWorktree that fails with AlreadyCheckedOut is
\* followed by the 'Create Anyway' dialog; on 'Create Anyway' the force flag
\* is in state.flags and the next thing the flow does is to call
\* createWorktree again with the same uri and options and force set, with
\* no step in between; on Cancel nothing follows.
C8_CreateRetryWithForce ==
    \A i \in 1..Len(log) :
        /\ (i \in CreateCalls /\ log[i].outcome = "AlreadyCheckedOut"
              /\ ~log[i].options.force) =>
                 IF i = Len(log) THEN pc = "c_offer"
                 ELSE IsCreateAnywayDialog(i + 1)
        /\ IsCreateAnywayDialog(i) =>
              /\ log[i - 1].outcome = "AlreadyCheckedOut"
              /\ ~log[i - 1].options.force
              /\ IF log[i].outcome = "Create Anyway"
                 THEN /\ "--force" \in state.flags
                      /\ i = Len(log) => pc = "c_try"
                      /\ i < Len(log) =>
                            /\ log[i + 1].op = "createWorktree"
                            /\ log[i + 1].uri = log[i - 1].uri
                            /\ log[i + 1].options =
                                  [log[i - 1].options EXCEPT !.force = TRUE]
                 ELSE /\ i = Len(log)
                      /\ pc \notin {"c_try", "c_offer"}

\* C8 witness: the forced second attempt succeeded.
C8_Witness ==
    /\ Len(log) = 3
    /\ log[1].op = "createWorktree" /\ log[1].outcome = "AlreadyCheckedOut"
    /\ log[2].outcome = "Create Anyway"
    /\ log[3].op = "createWorktree" /\ log[3].options.force
    /\ log[3].outcome = "ok"
    /\ pc = "done"

\* C9: createWorktree is called at most twice; a second call follows a
\* 'Create Anyway' answer and is forced; the force flag stays once added;
\* a failed forced attempt is not retried.
C9_CreateRetryBounded ==
    /\ Cardinality(CreateCalls) <= 2
    /\ \A i \in CreateCalls :
          /\ i > 1 => /\ log[i].options.force
                      /\ IsCreateAnywayDialog(i - 1)
                      /\ log[i - 1].outcome = "Create Anyway"
          /\ (log[i].options.force /\ log[i].outcome # "ok") =>
                /\ \A j \in CreateCalls : j <= i
                /\ pc \notin {"c_try", "c_offer"}
    /\ (\E i \in 1..Len(log) :
           IsCreateAnywayDialog(i) /\ log[i].outcome = "Create Anyway")
          => "--force" \in state.flags

\* C9 witness: the forced attempt failed, again with AlreadyCheckedOut, and
\* the command ended.
C9_Witness ==
    /\ pc = "done"
    /\ Cardinality(CreateCalls) = 2
    /\ log[3].options.force /\ log[3].outcome = "AlreadyCheckedOut"

\* C10: a createWorktree failure other than a non-forced AlreadyCheckedOut
\* is followed by an error message and by nothing else: no dialog, no
\* further call.
C10_NoRetryForOtherFailures ==
    \A i \in CreateCalls :
        (/\ log[i].outcome # "ok"
         /\ ~(~log[i].options.force /\ log[i].outcome = "AlreadyCheckedOut")) =>
            /\ i + 1 = Len(log)
            /\ log[i + 1].op = "showGenericErrorMessage"
            /\ pc \notin {"c_try", "c_offer"}

\* C10 witness: the first attempt failed because the folder exists.
C10_Witness ==
    /\ pc = "done"
    /\ Len(log) = 2
    /\ log[1].op = "createWorktree" /\ log[1].outcome = "AlreadyExists"
    /\ log[2].outcome = "folder already exists"

\* The position of a uri among the targets of the delete flow, 0 for none.
TargetIndex(u) ==
    IF \E k \in 1..Len(state.uris.items) : state.uris.items[k] = u
    THEN CHOOSE k \in 1..Len(state.uris.items) : state.uris.items[k] = u
    ELSE 0

\* deleteWorktree was called for the target at position k.
Attempted(k) ==
    \E i \in 1..Len(log) :
        log[i].op = "deleteWorktree" /\ log[i].uri = state.uris.items[k]

\* The uncommitted-changes warning of a forced delete was declined.
IsDeclinedWarning(e) ==
    /\ state.subcommand = "delete"
    /\ log[e].op = "showWarningMessage"
    /\ log[e].outcome = "Cancel"

\* A failure on a target that is not followed by a retry: the main worktree,
\* an unclassified error, or a declined 'Force Delete' offer.
IsFinalFailure(e) ==
    /\ state.subcommand = "delete"
    /\ \/ log[e].op = "showErrorMessage" /\ log[e].outcome # "Force Delete"
       \/ log[e].op = "showGenericErrorMessage"

AfterDeleteFlowPcs == {"backup", "steps", "return", "done"}

\* C11: the targets of a batch are worked on one at a time in the order of
\* state.uris, none is passed over, a failure that is not retried is
\* followed by the next target, and unless an uncommitted-changes warning was
\* declined deleteWorktree has been attempted on every target when the flow
\* ends.
C11_DeleteTargetsIndependent ==
    (state.subcommand = "delete" /\ Len(log) > 0) =>
        /\ TargetIndex(log[1].uri) > 0
        /\ \A i \in 1..(Len(log) - 1) :
              TargetIndex(log[i].uri) <= TargetIndex(log[i + 1].uri)
        /\ \A k \in 1..(TargetIndex(log[Len(log)].uri) - 1) : Attempted(k)
        /\ IsFinalFailure(Len(log)) =>
              /\ idx = TargetIndex(log[Len(log)].uri) + 1
              /\ \/ pc = "d_for"
                 \/ pc \in {"d_try", "d_call"}
                    /\ idx <= Len(state.uris.items)
                 \/ pc \in {"delete"} \cup AfterDeleteFlowPcs
                    /\ idx > Len(state.uris.items)
        /\ (pc \in AfterDeleteFlowPcs /\ ~IsDeclinedWarning(Len(log))) =>
              \A k \in 1..Len(state.uris.items) : Attempted(k)

\* C11 witness: of three targets the first is the main worktree, for the
\* second the 'Force Delete' offer was declined, and the third was deleted.
C11_Witness ==
    /\ pc = "done"
    /\ state.subcommand = "delete"
    /\ Len(state.uris.items) = 3
    /\ Len(log) = 5
    /\ log[1].op = "deleteWorktree" /\ log[1].outcome = "MainWorkingTree"
    /\ log[3].op = "deleteWorktree" /\ log[3].outcome = "HasChanges"
    /\ log[4].op = "showErrorMessage" /\ log[4].outcome = "Cancel"
    /\ log[5].op = "deleteWorktree" /\ log[5].outcome = "ok"
    /\ log[5].uri = state.uris.items[3]

\* C12: once the uncommitted-changes warning for a target was declined, the
\* earlier targets have been worked on, nothing more is done, and
\* deleteWorktree was called neither for a later target nor for that one.
C12_DeclineAbortsBatch ==
    /\ \A e \in 1..(Len(log) - 1) : ~IsDeclinedWarning(e)
    /\ (Len(log) > 0 /\ IsDeclinedWarning(Len(log))) =>
          LET k == TargetIndex(log[Len(log)].uri) IN
          /\ pc \in AfterDeleteFlowPcs
          /\ \A m \in 1..(k - 1) : Attempted(m)
          /\ \A m \in k..Len(state.uris.items) : ~Attempted(m)

\* C12 as amended: once the uncommitted-changes warning for a target was
\* declined, the earlier targets have been worked on, nothing more is done,
\* no later target was attempted and the declined target was not deleted by
\* force; the only call there can have been for it is the non-forced one
\* whose failure led to the 'Force Delete' offer.
C12_DeclineAbortsRest ==
    /\ \A e \in 1..(Len(log) - 1) : ~IsDeclinedWarning(e)
    /\ (Len(log) > 0 /\ IsDeclinedWarning(Len(log))) =>
          LET e == Len(log)
              k == TargetIndex(log[e].uri)
          IN
          /\ pc \in AfterDeleteFlowPcs
          /\ \A m \in 1..(k - 1) : Attempted(m)
          /\ \A m \in (k + 1)..Len(state.uris.items) : ~Attempted(m)
          /\ \A i \in 1..e :
                (log[i].op = "deleteWorktree" /\ log[i].uri = log[e].uri) =>
                    /\ ~log[i].options.force
                    /\ log[i].outcome \in {"HasChanges", "DeleteError"}
                    /\ log[i + 1].op = "showErrorMessage"
                    /\ log[i + 1].outcome = "Force Delete"
                    /\ e = i + 3

\* C12 witness: of three targets the first was deleted by force, the second
\* has uncommitted changes and its warning was declined; the flow ended.
C12_Witness ==
    /\ pc = "done"
    /\ Len(state.uris.items) = 3
    /\ Len(log) = 4
    /\ log[2].op = "deleteWorktree" /\ log[2].outcome = "ok"
    /\ log[2].uri = state.uris.items[1]
    /\ log[3].op = "getStatus" /\ log[3].outcome = "changes"
    /\ log[3].uri = state.uris.items[2]
    /\ IsDeclinedWarning(4)

\* C13: a forced deleteWorktree call comes right after the status check of
\* its target found no changes, or right after 'Force Delete' was chosen in
\* the warning shown for the changes the check found.
C13_ForcedDeleteGated ==
    \A i \in 1..Len(log) :
        /\ (log[i].op = "deleteWorktree" /\ log[i].options.force) =>
              /\ i > 1
              /\ \/ /\ log[i - 1].op = "getStatus"
                    /\ log[i - 1].uri = log[i].uri
                    /\ log[i - 1].outcome = "clean"
                 \/ /\ i > 2
                    /\ log[i - 1].op = "showWarningMessage"
                    /\ log[i - 1].uri = log[i].uri
                    /\ log[i - 1].outcome = "Force Delete"
                    /\ log[i - 2].op = "getStatus"
                    /\ log[i - 2].uri = log[i].uri
                    /\ log[i - 2].outcome = "changes"
        /\ (log[i].op = "getStatus" /\ log[i].outcome = "changes") =>
              IF i = Len(log) THEN pc = "d_warn"
              ELSE /\ log[i + 1].op = "showWarningMessage"
                   /\ log[i + 1].uri = log[i].uri

\* C13 witness: a worktree with uncommitted changes was deleted by force
\* after 'Force Delete' was chosen in its warning.
C13_Witness ==
    /\ Len(log) = 3
    /\ log[1].op = "getStatus" /\ log[1].outcome = "changes"
    /\ log[2].op = "showWarningMessage" /\ log[2].outcome = "Force Delete"
    /\ log[3].op = "deleteWorktree" /\ log[3].options.force
    /\ log[3].outcome = "ok"

\* C14: a failed createWorktree or deleteWorktree call is followed at once
\* by a message to the user or by the offer to retry with force.
C14_NoFailureSwallowed ==
    \A i \in 1..Len(log) :
        (log[i].op \in {"createWorktree", "deleteWorktree"}
           /\ log[i].outcome # "ok") =>
              IF i = Len(log) THEN pc \in {"c_offer", "d_offer"}
              ELSE log[i + 1].op \in {"showWarningMessage", "showErrorMessage",
                                      "showGenericErrorMessage"}

C16_OpenSingleAttempt ==
    state.subcommand = "open" =>
        /\ Len(log) <= 1
        /\ (prev.step = "openConfirm" /\ ~prev.back) => Len(log) = 1
        /\ Len(log) = 1 =>
              /\ prev.step = "openConfirm" /\ ~prev.back
              /\ log[1].op = "Worktree.open"
              /\ log[1].uri = state.uri
              /\ state.flags = ans.flags
              /\ log[1].outcome = IF "--new-window" \in state.flags
                                  THEN "NewWindow" ELSE "CurrentWindow"
              /\ pc \in {"open", "backup", "steps", "return", "done"}

\* C16 witness: the worktree was opened in a new window.
C16_Witness ==
    /\ pc = "done"
    /\ state.subcommand = "open"
    /\ Len(log) = 1
    /\ log[1].outcome = "NewWindow"
    /\ log[1].uri = <<"w2">>

\* C17: whenever the create confirm step is yielded state.flags is empty.
C17_NoStaleCreateFlags == pc = "y_cconfirm" => state.flags = {}

\* C17 witness: the confirm step is yielded again after the user chose to
\* create a branch and went back from the branch name.
C17_Witness ==
    /\ pc = "y_cconfirm"
    /\ prev.step = "branchName" /\ prev.back
    /\ "-b" \in ans.confirm.item
    /\ state.flags = {}

\* C18: inside a subcommand flow state.repo is a repository object, and at
\* a confirm step the fields of the earlier positions are set.
C18_StateResolvedBeforeUse ==
    /\ pc \in FlowPcs =>
          \E i \in 1..Len(OpenRepositories) : state.repo = OpenRepositories[i]
    /\ pc = "y_cconfirm" => (state.reference # Null /\ state.uri # NoUri)
    /\ pc = "y_dconfirm" =>
          (state.uris.kind = "array" /\ Len(state.uris.items) > 0)
    /\ pc = "y_oconfirm" => state.uri # NoUri

\* C18 witness: the delete confirm step is reached from an initial state
\* that gave the repository as a string and the target as a single uri,
\* with two repositories open.
C18_Witness ==
    /\ pc = "y_dconfirm"
    /\ env.args.repo = RepoPath
    /\ env.args.uris.kind = "uri"
    /\ Len(context.repos) = 2
    /\ nBreaks = 0
    /\ state.repo = OpenRepositories[1]
    /\ state.uris.kind = "array"

\* C19: when the location is not asked for, the default location is
\* known and no location was supplied, the location step is never yielded,
\* the confirm step is yielded with state.uri set to the default location,
\* and a Back answer at the confirm step is followed by the yield of the
\* reference pick.
C19_DefaultPathShortcut ==
    (~env.promptForLocation /\ env.defaultUri # NoUri /\ env.args.uri = NoUri) =>
        /\ cur # "path"
        /\ pc = "y_cconfirm" => state.uri = env.defaultUri
        /\ (AtYield /\ prev.step = "createConfirm" /\ prev.back)
              => cur = "reference"

\* An answer supplied in the initial state.
Supplied(step) ==
    CASE step = "subcommand" -> env.args.subcommand # Null
      [] step = "repository" -> env.args.repo # Null
      [] step = "reference" -> env.args.reference # Null
      [] step = "path" -> env.args.uri # NoUri
      [] step = "branchName" -> env.args.createBranch # Null
      [] step = "worktrees" -> Len(env.args.uris.items) > 0
      [] step = "worktree" -> env.args.uri # NoUri
      [] OTHER -> FALSE

\* An answer the wizard fills in itself: the only open repository, the
\* default location, or a branch name that is not needed.
Inferred(step) ==
    CASE step = "repository" -> Len(context.repos) = 1
      [] step = "path" -> UsesDefaultPath(state)
      [] step = "branchName" -> "-b" \notin state.flags
      [] OTHER -> FALSE

\* The steps of the wizard for a subcommand.
StepsOf(subcommand) ==
    {"subcommand", "repository"} \cup
    CASE subcommand = "create" ->
           {"reference", "path", "createConfirm", "branchName"}
      [] subcommand = "delete" -> {"worktrees", "deleteConfirm"}
      [] subcommand = "open" -> {"worktree", "openConfirm"}
      [] OTHER -> {}

ActionStarted == Len(log) > 0 \/ pc \in {"c_end", "c_try", "d_for", "d_try"}

\* Once the action of a flow has been started the counter is below 0, no
\* step is yielded, and the points where an action starts are not reached
\* again.
ExecutedOnce ==
    /\ ActionStarted => (state.counter < 0 \/ pc = "c_end")
    /\ Len(log) > 0 =>
          /\ ~AtYield
          /\ pc \notin {"c_end", "dispatch", "c_enter", "d_enter", "o_enter"}
          /\ (pc = "d_for" \/ pc = "d_try") => idx >= 1
          /\ state.subcommand = "open" => Len(log) = 1
          /\ state.subcommand = "create" => log[1].op = "createWorktree"
          /\ \A i \in 2..Len(log) :
                log[i].op = "createWorktree" => log[i - 1].outcome = "Create Anyway"
          /\ access.entered = IF nBreaks = 0 THEN 1 ELSE access.entered

\* C21: once a flow has ended its steps and started its action no further
\* step is yielded and the action is not started again, and from then on
\* steps() eventually returns.
C21_ExecutedAtMostOnce ==
    /\ []ExecutedOnce
    /\ (ActionStarted ~> pc = "done")

\* C21 witness: with the repository step skipped, the worktree was opened,
\* the counter went from -1 to -2 and steps() returned.
C21_Witness ==
    /\ pc = "done"
    /\ skippedStepTwo
    /\ state.counter = -2
    /\ Len(log) = 1 /\ log[1].op = "Worktree.open"
    /\ returned = Break

\* The deleteWorktree calls of the executed action.
DeleteCalls == {i \in 1..Len(log) : log[i].op = "deleteWorktree"}

\* 'Force Delete' was chosen in the offer made after a failed attempt.
IsAcceptedForceOffer(i) ==
    log[i].op = "showErrorMessage" /\ log[i].outcome = "Force Delete"

\* C22: deleteWorktree is called at most twice for a target, the second
\* time with force and right after the status check (and warning) that
\* follow an accepted 'Force Delete' offer for a failed non-forced call; a
\* MainWorkingTree failure and a failed forced call are followed by no call
\* for that target; a batch of n targets makes at most n + 1 calls.
C22_DeleteRetryBounded ==
    state.subcommand = "delete" =>
        /\ Cardinality(DeleteCalls) <= Len(state.uris.items) + 1
        /\ \A i \in DeleteCalls :
              LET earlier == {j \in DeleteCalls : j < i /\ log[j].uri = log[i].uri}
              IN  /\ Cardinality(earlier) <= 1
                  /\ \A j \in earlier :
                        /\ log[i].options.force
                        /\ ~log[j].options.force
                        /\ log[j].outcome \in {"HasChanges", "DeleteError"}
                        /\ IsAcceptedForceOffer(j + 1)
                        /\ log[j + 1].uri = log[j].uri
                        /\ i \in {j + 3, j + 4}
        /\ (Len(log) > 0 /\ log[Len(log)].op = "deleteWorktree"
              /\ pc = "d_offer") =>
                 /\ ~log[Len(log)].options.force
                 /\ log[Len(log)].outcome \in {"HasChanges", "DeleteError"}

\* C22 witness: the non-forced call for the second of three targets failed,
\* the offer was accepted and the forced call failed as well; the third
\* target came next: four calls had been made when the flow ended.
C22_Witness ==
    /\ pc = "done"
    /\ Len(state.uris.items) = 3
    /\ Cardinality(DeleteCalls) = 4
    /\ \E i \in DeleteCalls :
          /\ log[i].uri = state.uris.items[2]
          /\ log[i].options.force
          /\ log[i].outcome = "HasChanges"

\* C23: after 'Force Delete' was chosen in the offer for one target,
\* '--force' stays in state.flags and every later deleteWorktree call, for
\* that target and for the later ones, is made with force.
C23_ForcePersistsInBatch ==
    state.subcommand = "delete" =>
        \A i \in 1..Len(log) :
            IsAcceptedForceOffer(i) =>
                /\ "--force" \in state.flags
                /\ \A j \in DeleteCalls : j > i => log[j].options.force

\* C23 witness: the confirm step was answered without force, the offer for
\* the first target was accepted, and the first call for the second target
\* was made with force.
C23_Witness ==
    /\ state.subcommand = "delete"
    /\ ans.flags = {}
    /\ Len(state.uris.items) = 3
    /\ \E i \in 1..Len(log) :
          /\ IsAcceptedForceOffer(i)
          /\ log[i].uri = state.uris.items[1]
    /\ \E j \in DeleteCalls :
          /\ log[j].uri = state.uris.items[2]
          /\ log[j].options.force
          /\ \A k \in DeleteCalls : k < j => log[k].uri # log[j].uri

\* C24: a createWorktree call that creates a branch is made for the uri of
\* the confirmed item joined with the branch name, and with that name as
\* createBranch.
C24_BranchFolder ==
    \A i \in CreateCalls :
        "-b" \in ans.confirm.item =>
            /\ log[i].options.createBranch = state.createBranch
            /\ state.createBranch # Null
            /\ log[i].uri = joinPath(ans.confirm.context, <<state.createBranch>>)

\* ------------------------------------------------- subscription service
\* This step is a call of checkInAndValidate by getOrCreateSession for the
\* ensureSession call with key k (line 685).
CallsCheckIn(k) ==
    /\ calls[k].pc = "lookup"
    /\ calls'[k].pc \notin {"lookup", "abort"}

\* This step is a call of checkInAndValidate by validate (line 506).
ValidateChecksIn == validating.pc # "checkin" /\ validating'.pc = "checkin"

\* A check-in is on record that is younger than 12 hours, for a subscription
\* that has not expired, and the call does not force one.
FreshCheckIn(forced) ==
    /\ ~forced
    /\ _lastValidatedDate # NoDate
    /\ now - _lastValidatedDate < CheckInTtlHours
    /\ ~isSubscriptionExpired(_subscription, now)

\* C25: a call of checkInAndValidate leaves no check-in request pending (it
\* returns at once, and the caller goes on with the session) when force is
\* not set, a last-validated date is recorded that is less than 12 hours old
\* and the subscription is not expired; in every other case the server
\* check-in is under way when the call first waits, sent by this call
\* (which clears the last-validated date, line 551) unless one was pending.
C25_CheckInTtl ==
    [][/\ \A k \in Keys :
            CallsCheckIn(k) =>
                IF FreshCheckIn(CreateIfNeeded(k))
                THEN /\ checkin = "idle" /\ checkin' = "idle"
                     /\ calls'[k].pc = "idle"
                     /\ _session' = provider
                     /\ UNCHANGED <<_lastValidatedDate, subscriptionVars>>
                ELSE /\ checkin' = "fetch"
                     /\ calls'[k].pc = "checkin"
                     /\ _lastValidatedDate' = NoDate
       /\ ValidateChecksIn =>
            /\ checkin' = "fetch"
            /\ _lastValidatedDate' = NoDate]_vars

\* C25 witness: a session is cached although no check-in has settled since
\* the service started (the timer was never set) and the last-validated
\* date of the stored subscription is still on record: the check-in of the
\* lookup was skipped.
C25_Witness ==
    /\ _session \in Sessions
    /\ _lastValidatedDate # NoDate
    /\ ~_validationTimer
    /\ calls = [k \in Keys |-> Idle]

\* This step calls changeSubscription.
ChangesSubscription == lastChange'.seq # lastChange.seq

\* C26: when changeSubscription is called with a subscription that, once the
\* expired plan is replaced, the preview trial applied and the state
\* computed, serialises like the current subscription, then _subscription
\* and _etag stay as they are, no onDidChange event is fired and
\* updateContext is not called; storage is written if and only if
\* options.store is set.
C26_NoOpOnIdentical ==
    [][ChangesSubscription
       /\ stringify(lastChange'.subscription) = stringify(_subscription)
       => /\ _subscription' = _subscription
          /\ _etag' = _etag
          /\ fired' = fired
          /\ ~lastChange'.fired
          /\ ~lastChange'.updatedContext
          /\ lastChange'.stored <=> lastChange'.store
          /\ IF lastChange'.store
             THEN stored'.data = lastChange'.subscription
             ELSE stored' = stored]_vars

\* C26 witness: the last call of changeSubscription had options.store and a
\* subscription identical to the current one: storage was written, later
\* than the last change of the subscription, and nothing was fired.
C26_Witness ==
    /\ lastChange.store
    /\ lastChange.stored
    /\ ~lastChange.fired
    /\ ~lastChange.updatedContext
    /\ stringify(lastChange.subscription) = stringify(_subscription)
    /\ stored.data = _subscription
    /\ _etag < stored.lastValidatedAt

\* This step fires onDidChange.
FiresChange == ChangesSubscription /\ lastChange'.fired

\* C27: every SubscriptionChangeEvent that is fired has `previous` equal to
\* the subscription held before the change and `current` equal to the one
\* held after it, the two serialise differently, and `etag` is the etag the
\* service has from then on; its `previous` is the `current` of the event
\* fired before it, and until the next event the service holds the
\* `current` and the etag of the last one.
C27_ChangeEventConsistent ==
    /\ [](fired # <<>> =>
            /\ fired[1].current = _subscription
            /\ fired[1].etag = _etag)
    /\ [][FiresChange =>
            /\ fired' # <<>>
            /\ fired'[1].previous = _subscription
            /\ fired'[1].current = _subscription'
            /\ stringify(fired'[1].current) # stringify(fired'[1].previous)
            /\ fired'[1].etag = _etag'
            /\ fired # <<>> => fired'[1].previous = fired[1].current]_vars

\* C27 witness: the service started without an account, a check-in fired an
\* event that brought one, and the event fired last, by a logout, has that
\* subscription as its `previous`.
C27_Witness ==
    /\ fired # <<>>
    /\ fired[1].previous.account # NoAccount
    /\ fired[1].current.account = NoAccount
    /\ fired[1].current.previewTrial # NoDate
    /\ fired[1].current = _subscription

\* C28: when logout() was called while a session lookup of ensureSession and
\* the check-in it sent were pending, and has completed, and nothing that
\* signs in was started since, then once every pending operation has
\* settled no session is cached, the subscription has no account and no
\* validation timer is set.
C28_LogoutNotUndone ==
    raced /\ Quiescent =>
        /\ _session \in {Undefined, Null}
        /\ _subscription.account = NoAccount
        /\ ~_validationTimer

\* A getOrCreateSession is running for the ensureSession call with key k.
InFlight(k) ==
    calls[k].pc \in {"lookup", "abort", "checkin", "checked", "failabort"}

\* C29: at most one getOrCreateSession call is in flight at any time.
C29_SingleFlight == Cardinality({k \in Keys : InFlight(k)}) <= 1

\* The check-in failed with a status in [400, 500) and not with ENOTFOUND.
FailedAsClient(res) ==
    /\ ~res.ok
    /\ res.code # "ENOTFOUND"
    /\ res.statusCode # NoStatus
    /\ res.statusCode >= 400
    /\ res.statusCode < 500

\* This step is the check-in request failing.
CheckInFails ==
    checkin = "fetch" /\ checkin' = "idle" /\ _lastValidatedDate' = NoDate

\* C30: when the check-in fails, the subscription and storage stay as they
\* are and a validate that waits for it returns.  getOrCreateSession then,
\* for a status in [400, 500) that is not ENOTFOUND, does not return the
\* session but calls logoutCore (which clears the last-validated date and
\* the timer and, once abort() has settled, leaves only a subscription
\* without account) and settles with null; for every other failure it
\* returns the session, which ensureSession caches, and neither logs out
\* nor touches the subscription, storage, the date or the timer.  Every
\* call ends by returning: none is left with the failure.
C30_CheckInFailureHandling ==
    [][/\ CheckInFails =>
            /\ UNCHANGED subscriptionVars
            /\ validating.pc = "checkin" => validating'.pc = "idle"
            /\ \A k \in Keys : calls[k].pc = "checkin" =>
                    calls'[k].pc = "checked" /\ ~calls'[k].res.ok
       /\ \A k \in Keys :
            /\ calls[k].pc = "checked" /\ ~calls[k].res.ok
               /\ calls'[k].pc # "checked" =>
                    IF FailedAsClient(calls[k].res)
                    THEN /\ calls'[k].pc = "failabort"
                         /\ _session' = _session
                         /\ _lastValidatedDate' = NoDate
                         /\ ~_validationTimer'
                         /\ UNCHANGED subscriptionVars
                    ELSE /\ calls'[k].pc = "idle"
                         /\ _session' = calls[k].session
                         /\ UNCHANGED <<_lastValidatedDate, _validationTimer,
                                        logouts, subscriptionVars>>
            /\ calls[k].pc = "failabort" /\ calls'[k].pc # "failabort" =>
                    /\ calls'[k].pc = "idle"
                    /\ _session' = Null
                    /\ ChangesSubscription =>
                            /\ _subscription'.account = NoAccount
                            /\ _subscription'.plan.actual = FreePlan]_vars

\* C30 witness: the check-in of a lookup failed with status 499;
\* getOrCreateSession has called logoutCore, which waits for abort(): the
\* date and the timer are cleared and the session is not cached.
C30_Witness ==
    \E k \in Keys :
        /\ calls[k].pc = "failabort"
        /\ calls[k].res.statusCode = 499
        /\ _lastValidatedDate = NoDate
        /\ ~_validationTimer
        /\ _session \notin Sessions

\* This step completes a logout() without reset that was called while no
\* operation was pending, with none started since and none pending now:
\* abort() has resolved and logoutCore has run to its end.
LoneLogoutCompletes ==
    /\ Len(logouts) = 1
    /\ logouts' = <<>>
    /\ logouts[1].alone
    /\ ~logouts[1].reset
    /\ calls = [k \in Keys |-> Idle]
    /\ checkin = "idle"
    /\ validating.pc = "idle"
    /\ auth.pc = "idle"
    /\ ChangesSubscription

\* C31: when logout() without reset completes with no other operation in
\* flight, no session is cached and the session promise is cleared, the
\* last-validated date is unset, no validation timer is set, the
\* subscription has no account and the Free plan as its actual plan, its
\* previewTrial is the one it had, and its effective plan is Free unless
\* the preview trial has not expired, in which case it is the Pro plan of
\* the preview trial.
C31_LogoutPostcondition ==
    [][LoneLogoutCompletes =>
        /\ _session' \in {Undefined, Null}
        /\ _sessionPromise' = Undefined
        /\ _lastValidatedDate' = NoDate
        /\ ~_validationTimer'
        /\ _subscription'.account = NoAccount
        /\ _subscription'.plan.actual = FreePlan
        /\ _subscription'.previewTrial = _subscription.previewTrial
        /\ _subscription'.plan.effective =
              IF /\ _subscription.previewTrial # NoDate
                 /\ _subscription.previewTrial - now > 0
              THEN Plan("pro", _subscription.previewTrial)
              ELSE FreePlan]_vars

\* C31 witness: a user with a running preview trial signed in, which
\* brought an account and a plan, and logged out: nothing is pending, no
\* session is cached, date and timer are unset, and the subscription is the
\* preview trial without account again.
C31_Witness ==
    /\ Quiescent
    /\ fired # <<>>
    /\ fired[1].previous.account # NoAccount
    /\ _session = Undefined
    /\ _sessionPromise = Undefined
    /\ _lastValidatedDate = NoDate
    /\ ~_validationTimer
    /\ _subscription.account = NoAccount
    /\ _subscription.plan.actual = FreePlan
    /\ _subscription.previewTrial # NoDate
    /\ _subscription.plan.effective = Plan("pro", _subscription.previewTrial)

\* What the handler of a sessions-changed event does for the event e that
\* reports `updated`, when the session it compares with is `session`:
\* a removed session of the cached id clears the cache and logs out; an
\* added or changed session that differs from the cached one starts a
\* forced validation; when a session was cached, the reported session
\* replaces it at once and is the one this validation checks in;
\* an event for the same id and token changes nothing.
HandlesAuthenticationChange(e, updated, session) ==
    IF e = "removed"
    THEN session \in Sessions =>
            /\ _session' = Undefined
            /\ _sessionPromise' = Undefined
            /\ Len(logouts') = Len(logouts) + 1
    ELSE IF updated # session
    THEN /\ validating'.pc # "idle" \/ ChangesSubscription
         /\ session \in Sessions =>
                /\ _session' = updated
                /\ validating'.pc = "checkin" => validating'.res = updated
    ELSE UNCHANGED <<_session, _sessionPromise, _lastValidatedDate,
                     _validationTimer, logouts, calls, validating, checkin,
                     subscriptionVars>>

\* C32: when a sessions-changed event removes the session whose id is the
\* cached session's, the cached session is cleared and logout is performed;
\* when it adds or changes a session whose id or access token differs from
\* the cached one, a forced validation is started and the cached session
\* afterwards is the session the event reported; an event for the same id
\* and token does nothing.  The handler runs when the event arrives (a
\* step that changes the provider's session is the arrival of a changed
\* session), or when the session promise it waited for has settled.
C32_AuthenticationChange ==
    [][/\ provider' # provider /\ auth'.pc = "idle" =>
            HandlesAuthenticationChange("changed", provider', _session)
       /\ auth.pc = "resume" /\ auth'.pc = "idle" =>
            HandlesAuthenticationChange(auth.e, auth.updated,
                                        auth.session)]_vars

\* C33: a call of startPreviewTrial leaves the subscription as it is (and
\* does not call changeSubscription) whenever a previewTrial is on record,
\* expired or not, or the subscription is in a Pro trial; only otherwise
\* does it record a previewTrial, one that is still running, and make the
\* effective plan the Pro plan that ends with it, leaving the actual plan
\* and the account alone.  A call that follows one that started a preview
\* trial therefore starts none.
C33_PreviewTrialNotOverwritten ==
    [][previewTrialCalls' # previewTrialCalls =>
          IF \/ _subscription.previewTrial # NoDate
             \/ isSubscriptionInProTrial(_subscription, now)
          THEN UNCHANGED subscriptionVars
          ELSE /\ _subscription'.previewTrial # NoDate
               /\ getTimeRemaining(_subscription'.previewTrial, now) > 0
               /\ _subscription'.plan.effective =
                      Plan("pro", _subscription'.previewTrial)
               /\ _subscription'.plan.actual = _subscription.plan.actual
               /\ _subscription'.account = _subscription.account
               /\ fired' # fired]_vars

\* C33 witness: startPreviewTrial was called twice; the first call started
\* the preview trial that is on record and changed the subscription, the
\* second changed nothing.
C33_Witness ==
    /\ previewTrialCalls = 2
    /\ fired # <<>>
    /\ fired[1].previous.previewTrial = NoDate
    /\ fired[1].current = _subscription
    /\ _subscription.previewTrial # NoDate
    /\ _subscription.plan.effective = Plan("pro", _subscription.previewTrial)

\* C34: while a session is cached, validation with the server is performed
\* at least once a day: whenever nothing is pending, the last validation on
\* record is at most 24 hours old, or, when the last check-in failed and
\* none is on record, the validation timer is set and the next firing, at
\* most six hours after that check-in, looks the session up again.
C34_DailyValidation ==
    _session \in Sessions /\ Quiescent =>
        IF _lastValidatedDate = NoDate
        THEN _validationTimer
        ELSE now - _lastValidatedDate <= 24

====
